---- MODULE Spec2Model ----
(***************************************************************************)
(* TerrainGossip (rng-ops/gossip): a TLA+ model of the gossip event log,   *)
(* delta synchronisation, membership gating and the onion layer.           *)
(*                                                                         *)
(* Every subsystem has its own specification over its own variables; the   *)
(* variables of the other subsystems stay unchanged in it.                 *)
(***************************************************************************)
EXTENDS Integers, Sequences, FiniteSets, TLC

\* ------------------------------------------------------------------ bounds
\* Number of distinct event ids of the world that is modelled.
MaxEvents == 3
\* Threads that call into one EventLog / MembershipManager concurrently.
MaxThreads == 2
\* SyncManager.max_batch (config max_sync_events), the same on every node.
MaxBatch == 1
\* Event ids that the nodes of the sync model append.
MaxSyncEvents == 2
\* Peers registered with sync managers in one behaviour.
MaxRegistered == 1
\* Sync rounds (create_request calls) started in one behaviour.
MaxRounds == 3
\* Sync messages in flight at one time.
MaxInFlight == 1
\* MembershipManager.rate_limit_rpm.
RateLimitRpm == 2
\* Hops of an onion path (InfernodeConfig.max_hops at its largest).
MaxHops == 8
\* Requests sealed over one client circuit.
MaxRequests == 2
\* Hops of a transport circuit (terrain-gossip-net).
MaxNetHops == 2
\* Cells sealed over one transport circuit.
MaxCells == 2
\* FrameCodec.fixed_cell_bytes of the codec the onion cells travel through.
FixedCellBytes == 82
\* deposit and evaporate calls made on the trails of one terrain map.
MaxTrailUpdates == 2
\* Provider ids listed in the terrain's coordinate index at one time.
MaxListed == 2
\* CircuitManager.max_circuits.
MaxCircuits == 2
\* Circuits created on one CircuitManager.
MaxCreated == 3
\* Requests sealed over one circuit of the table.
MaxTableRequests == 1
\* State-changing calls made on one Router.
MaxRouterCalls == 3
\* CircuitTable.max_circuits of the relay.
MaxRelayCircuits == 2
\* Scheduler.max_queue_size.
MaxQueueSize == 2
\* Relay.rate_limit_cpm.
RateLimitCpm == 1
\* Cells one relay decrypts.
MaxRelayCells == 1
\* FrameCodec.fixed_cell_bytes of the codec whose encode and decode are examined
\* frame by frame, the longest payload given to it, and the most bytes buffered.
CodecCellBytes == 2
MaxCodecPayload == 3
MaxCodecBuffer == 8
\* Connections accepted by the gossip server, and the modulus of its tasks'
\* tick counters less one.
MaxAccepted == 2
MaxTicks == 1
\* The longest byte stream fed to the decoder: two frames of five bytes.
MaxStream == 10
\* The longest contact_points and adapters lists given to create_provider_descriptor.
MaxContacts == 3
MaxAdapters == 2

VARIABLES
    store,      \* [Nodes -> set of events]      Storage.events (sled tree) per node
    vv,         \* [Nodes -> partial map]        EventLog.version_vector (in memory)
    diskVV,     \* [Nodes -> partial map]        Storage.version_vectors (persisted)
    lastCall,   \* the last call made on an event log, with its result
    thr,        \* [Threads -> record]           position of each concurrent caller
    okCount,    \* [EventIds -> Nat]             insertions reported per event id
    now,        \* Instant::now(), in seconds
    peers,      \* [Nodes -> partial map]        SyncManager.peers: PeerSyncState per peer
    net,        \* sync requests and responses in flight
    rounds,     \* number of sync rounds started
    origin,     \* [EventIds -> node or "none"]  the replica that appended the event
    idx,        \* [Nodes -> partial map]        per node: event id -> <<source, counter>>
    members,    \* partial map peer -> Member      MembershipManager.members
    banned,     \* set of peers                    MembershipManager.banned
    rate_limits,\* partial map peer -> RateLimitState
    okTimes,    \* [MemberPeers -> Seq(time)]      times at which check_authorized returned Ok
    mthr,       \* [Threads -> record]             position of each concurrent membership caller
    banReturned,\* set of peers                    peers for which a ban_peer call has returned
    hop_keys,   \* Seq(OnionHopKey)                ClientCircuit.hop_keys
    status,     \* ClientCircuit.status
    request_count, \* ClientCircuit.request_count
    last_used,  \* ClientCircuit.last_used
    cell,       \* the OnionCell in transit, or NoCell
    sent,       \* the payload given to the last encrypt_request
    hdrs,       \* Seq(OnionHeader)                headers obtained by the hops so far
    lastLayer,  \* result of the last decrypt_layer
    sealLog,    \* Seq(<<key, nonce>>)             every AEAD encryption made so far
    circuit_hops, \* Seq(CircuitHop)   Circuit.hops of the client (terrain-gossip-net)
    relay_keys, \* Seq(SessionKeys)  the keys the relay of each hop derived
    wire,       \* the transport onion in transit, with the (circuit_id, seq) it was sealed under
    lastOpen,   \* the last Circuit::decrypt_layer call: its inputs and result
    cells_sent, \* number of encrypt_onion calls made
    framed,     \* the last passage of an onion cell through the frame codec
    trails,     \* TerrainMap.trails: edge -> PheromoneTrail
    providers_at, \* TerrainMap.providers_at: coordinate -> provider ids
    last_decay, \* TerrainMap.last_decay
    providers,  \* ProviderRegistry.providers: id -> ProviderState
    by_model,   \* ProviderRegistry.by_model: model family -> provider ids
    last_update, \* Router.last_update
    routerCall, \* the last call made on the Router, with what it returned
    router_calls, \* number of state-changing calls made on the Router
    rthr,       \* [Threads -> record]  position of each task inside its Router call, and the lock guards it holds
    circuits,   \* CircuitManager.circuits: id -> ClientCircuit
    next_circuit, \* the id the next ClientCircuit::new draws
    tableCall,  \* the last call made on the CircuitManager: its input, its result, the table before it
    relay_circuits, \* CircuitTable.circuits of the relay: circuit id -> CircuitState
    relayCall,   \* the last call made on the relay circuit table, with the table before it
    sched_providers, \* Scheduler.providers
    history,    \* Scheduler.history: provider id -> ProbeHistory
    high_priority, \* Scheduler.high_priority: queue of ScheduledProbe
    normal_priority, \* Scheduler.normal_priority
    low_priority, \* Scheduler.low_priority
    in_flight,  \* Scheduler.in_flight
    probe_results, \* number of report_result calls made
    schedCall,  \* the last call made on the scheduler, when it was schedule_probe
    relay_limits, \* Relay.rate_limits: peer -> RateLimitState
    relay_stats, \* Relay.stats
    cellCall,   \* the last process_cell call: its sender, its result, whether it changed the stats
    codec_src,  \* FrameCodec decode buffer (BytesMut) of the receiving side
    codecCall,  \* the last encode or decode call of the codec and its result
    run_pc,     \* Server::run: new, spawned, accept, returned (Ok) or failed (Err)
    task_pc,    \* the sync and prune tasks: none, loop, exited or aborted
    shutdown_rx, \* each broadcast receiver: none (not subscribed), empty or message
    signal_pc,  \* the signal task of main: waiting for Ctrl-C, or logged
    shutdown_called, \* Server::shutdown has been called
    flushed,    \* Storage::flush has run
    accepted,   \* connections accepted by the accept loop
    ticks,      \* timer ticks each background task has served (modulo MaxTicks + 1)
    descriptor_of, \* ProviderState.descriptor of every registered provider, by descriptor id
    created,    \* the last create_provider_descriptor call: its input and the descriptor returned
    codec_in,   \* every byte the decoder has been fed so far, in order
    codec_out   \* the outcomes decode has returned so far, None left out

logVars  == <<store, vv, diskVV>>
callVars == <<lastCall, thr, okCount>>
syncVars == <<peers, net, rounds, origin, idx>>
memberVars == <<members, banned, rate_limits, okTimes, mthr, banReturned>>
onionVars == <<hop_keys, status, request_count, last_used, cell, sent, hdrs, lastLayer,
              sealLog>>
netVars == <<circuit_hops, relay_keys, wire, lastOpen, cells_sent>>
\* The transport circuits, the router and the client circuit table.
frameVars == <<framed>>
\* The inference router: its terrain map and its provider registry.
routerVars == <<trails, providers_at, last_decay, providers, by_model, last_update, routerCall, router_calls>>
\* The tasks that call into one Router concurrently.
routerThreadVars == <<rthr>>
\* The client's circuit table (infernode).
tableVars == <<circuits, next_circuit, tableCall>>
\* The relay of an inference node.
relayVars == <<relay_circuits, relayCall>>
\* The prober's scheduler.
schedVars == <<sched_providers, history, high_priority, normal_priority, low_priority, in_flight, probe_results, schedCall>>
\* The relay's handling of cells.
relayCellVars == <<relay_limits, relay_stats, cellCall>>
\* The relay, the prober's scheduler and the daemon's tasks.
codecVars == <<codec_src, codecCall, codec_in, codec_out>>
serverVars == <<run_pc, task_pc, shutdown_rx, signal_pc, shutdown_called, flushed, accepted, ticks>>
descVars == <<descriptor_of, created>>
serviceVars == <<relayVars, relayCellVars, schedVars, codecVars, serverVars, descVars>>
otherVars == <<netVars, frameVars, routerVars, routerThreadVars, tableVars, serviceVars>>
\* What the actions of the gossip daemon's log and sync manager leave alone.
outsideGossip == <<memberVars, onionVars, otherVars>>
\* What the actions of a single event log leave alone.
outsideLog == <<now, syncVars, outsideGossip>>
vars     == <<store, vv, diskVV, lastCall, thr, okCount, now, peers, net, rounds,
              origin, idx, members, banned, rate_limits, okTimes, mthr, banReturned,
              hop_keys, status, request_count, last_used, cell, sent, hdrs, lastLayer,
              sealLog, otherVars>>

\* ------------------------------------------------------------- event log
Nodes    == {"A", "B", "C"}          \* replica ids = peer ids (transport keys)
LogNode  == "A"                      \* the node whose log is driven directly
LogSources == {"A", "B"}             \* source replicas offered to its merge
LocalWorld == "w"                    \* EventLog.world_id, the same on every node
Worlds   == {"w", "x"}
EventIds == 1..MaxEvents
\* The events offered to a log: every id in the log's own world, and one event
\* of another world.
Events   == [event_id : EventIds, world : {LocalWorld}]
                \cup {[event_id |-> 1, world |-> "x"]}
Threads  == 1..MaxThreads
MemberPeers == {"p", "q"}            \* peer public keys known to the membership manager
IdleCaller == [pc |-> "idle", op |-> "none", p |-> "p"]
NoCell == [circuit_id |-> "none", payload |-> <<>>, hop_index |-> 0]  \* no cell in transit
NoWire == [live |-> FALSE, payload |-> <<>>, circuit_id |-> 0, seq |-> 0, layer |-> 0]
NoOpen == [res |-> "none", circuit_id |-> 0, seq |-> 0]
NotFramed == [request |-> 0, hop_index |-> 0, res |-> "none", len |-> 0]
\* No cell returned by the CircuitManager (circuit ids start at 1).
NoTableCell == [circuit_id |-> 0, payload |-> <<>>, hop_index |-> 0]
\* No call made on the CircuitManager yet.
NoTableCall ==
    [op |-> "none", id |-> 0, res |-> "none", at |-> 0, before |-> <<>>, cell |-> NoTableCell]
\* No call made on the relay's circuit table yet.
NoRelayCall == [op |-> "none", id |-> 0, at |-> 0, before |-> <<>>]
\* No schedule_probe call is the last call made on the scheduler.
NoSchedCall == [op |-> "none", id |-> 0, res |-> "none", full |-> FALSE, changed |-> FALSE]
\* RelayStats::default()
NoRelayStats ==
    [cells_processed |-> 0, cells_forwarded |-> 0, cells_delivered |-> 0,
     cells_dropped |-> 0, rate_limited |-> 0]
\* No process_cell call made on the relay yet.
NoDescriptor == [descriptor_id |-> <<>>, unsigned |-> <<>>, provider_transport_pubkey |-> 0, signature |-> <<>>]
NoCodecCall == [op |-> "none", res |-> "none", frame_type |-> 0, in_len |-> 0, len |-> 0]
NoCellCall == [from_peer |-> 0, res |-> "none", counted |-> FALSE]
\* A task that is not inside a Router call.
IdleRouterThread ==
    [pc |-> "idle", op |-> "none", id |-> 0, model |-> "none", latency_ms |-> 0,
     request |-> <<>>, held |-> {}, state_family |-> "none", todo |-> {},
     cands |-> <<>>, scored |-> <<>>]
\* No call made on the Router yet.
NoRouterCall ==
    [op |-> "none", res |-> "none", request |-> <<>>, ranked |-> <<>>, pruned |-> {}]

StorageFaults == {"none", "has_event", "put_event", "put_version"}

EmptyVV == [r \in {} |-> 0]

\* HashMap lookup with the default the code uses (entry().or_insert(0)).
VVGet(v, r) == IF r \in DOMAIN v THEN v[r] ELSE 0

\* vv.entry(r).or_insert(0); *counter += 1
VVBump(v, r) == [x \in (DOMAIN v) \cup {r} |-> IF x = r THEN VVGet(v, r) + 1 ELSE v[x]]

\* Storage::put_version: insert (replica_id -> counter) into the persisted tree.
PutVersion(d, r, c) == [x \in (DOMAIN d) \cup {r} |-> IF x = r THEN c ELSE d[x]]

\* Storage::has_event: the events tree is keyed by event_id.
HasEvent(S, id) == \E x \in S : x.event_id = id

\* Storage::put_event: insert under the key event_id (an equal key is overwritten).
PutEvent(S, e) == {x \in S : x.event_id # e.event_id} \cup {e}

\* Storage::event_count
EventCount(S) == Cardinality(S)

\* Storing the event without touching any counter.
StoreNoBump(S, v, d, e, r, f, okRes) ==
    IF f = "put_event"
    THEN [store |-> S, vv |-> v, disk |-> d, res |-> "Storage"]
    ELSE [store |-> PutEvent(S, e), vv |-> v, disk |-> d,
          res |-> IF f = "put_version" THEN "Storage" ELSE okRes]

\* The part append and merge share after the duplicate check: store the event,
\* bump the counter of replica r in memory, persist the counter.
\* f names the storage call that fails in this invocation (or "none").
StoreAndBump(S, v, d, e, r, f, okRes) ==
    IF f = "put_event"
    THEN [store |-> S, vv |-> v, disk |-> d, res |-> "Storage"]
    ELSE LET S2 == PutEvent(S, e)
             v2 == VVBump(v, r)
         IN  IF f = "put_version"
             THEN [store |-> S2, vv |-> v2, disk |-> d, res |-> "Storage"]
             ELSE [store |-> S2, vv |-> v2, disk |-> PutVersion(d, r, v2[r]),
                   res |-> okRes]

\* An append that does not look for a duplicate.
AppendOutcomeNoDuplicateCheck(S, v, d, self, e, f) ==
    IF e.world # LocalWorld
    THEN [store |-> S, vv |-> v, disk |-> d, res |-> "WorldMismatch"]
    ELSE IF f = "has_event"
    THEN [store |-> S, vv |-> v, disk |-> d, res |-> "Storage"]
    ELSE StoreAndBump(S, v, d, e, self, f, "Ok")

\* EventLog::append on the log (S, v, d) of replica self.
AppendOutcome(S, v, d, self, e, f) ==
    IF e.world # LocalWorld
    THEN [store |-> S, vv |-> v, disk |-> d, res |-> "WorldMismatch"]
    ELSE IF f = "has_event"
    THEN [store |-> S, vv |-> v, disk |-> d, res |-> "Storage"]
    ELSE IF HasEvent(S, e.event_id)
    THEN [store |-> S, vv |-> v, disk |-> d, res |-> "DuplicateEvent"]
    ELSE StoreAndBump(S, v, d, e, self, f, "Ok")

\* A merge that bumps the source counter before it looks for a duplicate.
MergeOutcomeBumpFirst(S, v, d, e, r, f) ==
    IF e.world # LocalWorld
    THEN [store |-> S, vv |-> v, disk |-> d, res |-> "WorldMismatch"]
    ELSE IF f = "has_event"
    THEN [store |-> S, vv |-> v, disk |-> d, res |-> "Storage"]
    ELSE IF HasEvent(S, e.event_id)
    THEN [store |-> S, vv |-> VVBump(v, r), disk |-> d, res |-> "Ok(false)"]
    ELSE StoreAndBump(S, v, d, e, r, f, "Ok(true)")

\* A merge that does not compare the event's world with the log's.
MergeOutcomeAnyWorld(S, v, d, e, r, f) ==
    IF f = "has_event"
    THEN [store |-> S, vv |-> v, disk |-> d, res |-> "Storage"]
    ELSE IF HasEvent(S, e.event_id)
    THEN [store |-> S, vv |-> v, disk |-> d, res |-> "Ok(false)"]
    ELSE StoreAndBump(S, v, d, e, r, f, "Ok(true)")

\* EventLog::merge of event e received from source_replica r.
MergeOutcome(S, v, d, e, r, f) ==
    IF e.world # LocalWorld
    THEN [store |-> S, vv |-> v, disk |-> d, res |-> "WorldMismatch"]
    ELSE IF f = "has_event"
    THEN [store |-> S, vv |-> v, disk |-> d, res |-> "Storage"]
    ELSE IF HasEvent(S, e.event_id)
    THEN [store |-> S, vv |-> v, disk |-> d, res |-> "Ok(false)"]
    ELSE StoreAndBump(S, v, d, e, r, f, "Ok(true)")

\* EventLog::get_version_vector: the snapshot of the in-memory map.
GetVersionVector(n) == vv[n]

NoCall == [op |-> "none", e |-> 0, src |-> LogNode,
           fault |-> "none", res |-> "none", rep |-> FALSE, changed |-> FALSE]

\* The record kept of a call: what was called, what it returned, whether it
\* repeats the arguments of a merge that had got as far as storing its event,
\* and whether it changed the stored events or the version vector.
CallRecord(op, n, e, r, f, out) ==
    [op |-> op, e |-> e.event_id, src |-> r, fault |-> f,
     res |-> out.res,
     rep |-> /\ op = "merge"
             /\ lastCall.op = "merge"
             /\ lastCall.e = e.event_id /\ lastCall.src = r
             /\ e.world = LocalWorld
             /\ \/ lastCall.res \in {"Ok(true)", "Ok(false)"}
                \/ lastCall.res = "Storage" /\ lastCall.fault = "put_version",
     changed |-> out.store # store[n] \/ out.vv # vv[n] \/ out.disk # diskVV[n]]

Init ==
    /\ store = [n \in Nodes |-> {}]
    /\ vv = [n \in Nodes |-> EmptyVV]
    /\ diskVV = [n \in Nodes |-> EmptyVV]
    /\ lastCall = NoCall
    /\ thr = [t \in Threads |-> [pc |-> "idle", op |-> "none", e |-> 0, src |-> "A"]]
    /\ okCount = [i \in EventIds |-> 0]
    /\ now = 0
    /\ peers = [n \in Nodes |-> EmptyVV]
    /\ net = {}
    /\ rounds = 0
    /\ origin = [i \in EventIds |-> "none"]
    /\ idx = [n \in Nodes |-> EmptyVV]
    /\ members = EmptyVV
    /\ banned = {}
    /\ rate_limits = EmptyVV
    /\ okTimes = [p \in MemberPeers |-> <<>>]
    /\ mthr = [t \in Threads |-> IdleCaller]
    /\ banReturned = {}
    /\ hop_keys = <<>>
    /\ status = "Building"
    /\ request_count = 0
    /\ last_used = 0
    /\ cell = NoCell
    /\ sent = <<>>
    /\ hdrs = <<>>
    /\ lastLayer = "none"
    /\ sealLog = <<>>
    /\ circuit_hops = <<>>
    /\ relay_keys = <<>>
    /\ wire = NoWire
    /\ lastOpen = NoOpen
    /\ cells_sent = 0
    /\ framed = NotFramed
    /\ trails = <<>>
    /\ providers_at = <<>>
    /\ last_decay = 0
    /\ providers = <<>>
    /\ by_model = <<>>
    /\ last_update = 0
    /\ routerCall = NoRouterCall
    /\ router_calls = 0
    /\ rthr = [t \in 1..MaxThreads |-> IdleRouterThread]
    /\ circuits = <<>>
    /\ next_circuit = 1
    /\ tableCall = NoTableCall
    /\ relay_circuits = <<>>
    /\ relayCall = NoRelayCall
    /\ sched_providers = {}
    /\ history = <<>>
    /\ high_priority = <<>>
    /\ normal_priority = <<>>
    /\ low_priority = <<>>
    /\ in_flight = {}
    /\ probe_results = 0
    /\ schedCall = NoSchedCall
    /\ relay_limits = <<>>
    /\ relay_stats = NoRelayStats
    /\ cellCall = NoCellCall
    /\ codec_src = <<>>
    /\ codecCall = NoCodecCall
    /\ run_pc = "new"
    /\ task_pc = [t \in {"sync", "prune"} |-> "none"]
    /\ shutdown_rx = [t \in {"run", "sync", "prune"} |-> "none"]
    /\ signal_pc = "waiting"
    /\ shutdown_called = FALSE
    /\ flushed = FALSE
    /\ accepted = 0
    /\ ticks = [t \in {"sync", "prune"} |-> 0]
    /\ descriptor_of = <<>>
    /\ created = [input |-> <<>>, out |-> NoDescriptor]
    /\ codec_in = <<>>
    /\ codec_out = <<>>

\* One whole append call (the calls of one log executed one after another).
LogAppend(n, e, f) ==
    LET out == AppendOutcome(store[n], vv[n], diskVV[n], n, e, f) IN
    /\ store' = [store EXCEPT ![n] = out.store]
    /\ vv' = [vv EXCEPT ![n] = out.vv]
    /\ diskVV' = [diskVV EXCEPT ![n] = out.disk]
    /\ lastCall' = CallRecord("append", n, e, n, f, out)
    /\ UNCHANGED <<thr, okCount, outsideLog>>

\* One whole merge call.
LogMerge(n, e, r, f) ==
    LET out == MergeOutcome(store[n], vv[n], diskVV[n], e, r, f) IN
    /\ store' = [store EXCEPT ![n] = out.store]
    /\ vv' = [vv EXCEPT ![n] = out.vv]
    /\ diskVV' = [diskVV EXCEPT ![n] = out.disk]
    /\ lastCall' = CallRecord("merge", n, e, r, f, out)
    /\ UNCHANGED <<thr, okCount, outsideLog>>

\* EventLog::new after a restart: the vector is reloaded from storage; when
\* get_all_versions fails the log starts from an empty vector.
ReloadVV(d, ok) == IF ok THEN d ELSE EmptyVV

Restart(n, ok) ==
    /\ vv' = [vv EXCEPT ![n] = ReloadVV(diskVV[n], ok)]
    /\ lastCall' = [NoCall EXCEPT !.op = "restart"]
    /\ UNCHANGED <<store, diskVV, thr, okCount, outsideLog>>

\* ------------------------------------------- concurrent callers of a log
\* EventLog is shared (Arc<EventLog>, &self methods).  has_event and put_event
\* are separate storage calls made without a lock; the version-vector write
\* lock is taken only afterwards and covers the increment and put_version.
RECURSIVE SumOver(_, _)
SumOver(v, D) ==
    IF D = {} THEN 0
    ELSE LET x == CHOOSE y \in D : TRUE IN v[x] + SumOver(v, D \ {x})

\* Sum of all counters of a version vector.
VVTotal(v) == SumOver(v, DOMAIN v)

IdleThread == [pc |-> "idle", op |-> "none", e |-> 0, src |-> LogNode]

\* append/merge up to and including the duplicate check.
ThreadCall(t, op, e, r) ==
    /\ thr[t].pc = "idle"
    /\ thr' = [thr EXCEPT ![t] =
                 IF e.world # LocalWorld \/ HasEvent(store[LogNode], e.event_id)
                 THEN IdleThread
                 ELSE [pc |-> "put_event", op |-> op, e |-> e.event_id,
                       src |-> IF op = "append" THEN LogNode ELSE r]]
    /\ UNCHANGED <<store, vv, diskVV, lastCall, okCount, outsideLog>>

\* self.storage.put_event(&event)?
ThreadPutEvent(t) ==
    /\ thr[t].pc = "put_event"
    /\ store' = [store EXCEPT ![LogNode] =
                   PutEvent(@, [event_id |-> thr[t].e, world |-> LocalWorld])]
    /\ thr' = [thr EXCEPT ![t].pc = "update_vv"]
    /\ UNCHANGED <<vv, diskVV, lastCall, okCount, outsideLog>>

\* let mut vv = self.version_vector.write(); counter += 1; put_version; Ok
ThreadUpdateVV(t) ==
    /\ thr[t].pc = "update_vv"
    /\ LET v2 == VVBump(vv[LogNode], thr[t].src) IN
        /\ vv' = [vv EXCEPT ![LogNode] = v2]
        /\ diskVV' = [diskVV EXCEPT ![LogNode] = PutVersion(@, thr[t].src, v2[thr[t].src])]
    /\ okCount' = [okCount EXCEPT ![thr[t].e] = @ + 1]
    /\ thr' = [thr EXCEPT ![t] = IdleThread]
    /\ UNCHANGED <<store, lastCall, outsideLog>>

NextLogConc ==
    \/ \E t \in Threads, op \in {"append", "merge"}, e \in Events, r \in LogSources :
          ThreadCall(t, op, e, r)
    \/ \E t \in Threads : ThreadPutEvent(t)
    \/ \E t \in Threads : ThreadUpdateVV(t)

SpecLogConc == Init /\ [][NextLogConc]_vars

\* ------------------------------------------------------ delta sync
\* Storage::all_events: the sled tree iterates in key (event_id) order.
RECURSIVE AllEvents(_)
AllEvents(S) ==
    IF S = {} THEN <<>>
    ELSE LET m == CHOOSE x \in S : \A y \in S : x.event_id <= y.event_id
         IN  <<m>> \o AllEvents(S \ {m})

\* Vec::truncate(k) / Iterator::take(k)
Take(s, k) == IF Len(s) > k THEN SubSeq(s, 1, k) ELSE s

\* The batch limit written into compute_delta.
DELTA_LIMIT == 1000

\* EventLog::compute_delta: peer_vector is collected into a map that is not
\* consulted; every stored event is pushed, then the batch is truncated.
ComputeDelta(S, peer_vector) ==
    LET delta == AllEvents(S) IN
    IF Len(delta) > DELTA_LIMIT THEN Take(delta, DELTA_LIMIT) ELSE delta

\* SyncManager::handle_request on node n.
HandleRequestOut(n, version_vector, max_events) ==
    LET events  == ComputeDelta(store[n], version_vector)
        limited == Take(events, max_events)
    IN  [events |-> limited,
         version_vector |-> GetVersionVector(n),
         has_more |-> Len(limited) >= max_events]

\* The merge loop of handle_response: events are merged in order with the
\* responder as source; the first error ends the call (the ? operator).
\* ix is the index (event id -> <<source, counter>>) kept beside the log.
RECURSIVE MergeAll(_, _, _, _, _, _, _)
MergeAll(S, v, d, ix, evs, r, merged) ==
    IF evs = <<>>
    THEN [store |-> S, vv |-> v, disk |-> d, ix |-> ix, res |-> "Ok", merged |-> merged]
    ELSE LET out == MergeOutcome(S, v, d, Head(evs), r, "none") IN
         IF out.res = "Ok(true)"
         THEN MergeAll(out.store, out.vv, out.disk,
                       PutVersion(ix, Head(evs).event_id, <<r, out.vv[r]>>),
                       Tail(evs), r, merged + 1)
         ELSE IF out.res = "Ok(false)"
         THEN MergeAll(out.store, out.vv, out.disk, ix, Tail(evs), r, merged)
         ELSE [store |-> out.store, vv |-> out.vv, disk |-> out.disk, ix |-> ix,
               res |-> out.res, merged |-> merged]

\* The events the nodes of the sync model append.
SyncEvents == {e \in Events : e.event_id <= MaxSyncEvents}

NumRegistered == SumOver([n \in Nodes |-> Cardinality(DOMAIN peers[n])], Nodes)

DefaultPeerSyncState ==
    [last_version |-> EmptyVV, last_sync |-> now, sync_count |-> 0, failures |-> 0]

\* SyncManager::register_peer: entry(peer_id).or_insert_with(default)
RegisterPeer(n, p) ==
    /\ p \notin DOMAIN peers[n]
    /\ NumRegistered < MaxRegistered
    /\ peers' = [peers EXCEPT ![n] = PutVersion(@, p, DefaultPeerSyncState)]
    /\ UNCHANGED <<logVars, callVars, now, net, rounds, origin, idx, outsideGossip>>

\* A local append on node n of an event that no replica has appended before
\* (event ids are content hashes: two replicas do not create the same event).
SyncAppend(n, e) ==
    /\ e.world = LocalWorld => origin[e.event_id] = "none"
    /\ LET out == AppendOutcome(store[n], vv[n], diskVV[n], n, e, "none") IN
        /\ store' = [store EXCEPT ![n] = out.store]
        /\ vv' = [vv EXCEPT ![n] = out.vv]
        /\ diskVV' = [diskVV EXCEPT ![n] = out.disk]
        /\ origin' = IF out.res = "Ok" THEN [origin EXCEPT ![e.event_id] = n] ELSE origin
        /\ idx' = IF out.res = "Ok"
                  THEN [idx EXCEPT ![n] = PutVersion(@, e.event_id, <<n, out.vv[n]>>)]
                  ELSE idx
    /\ UNCHANGED <<callVars, now, peers, net, rounds, outsideGossip>>

\* SyncManager::create_request on node a for peer b; the request travels to b.
CreateRequest(a, b) ==
    /\ a # b
    /\ rounds < MaxRounds
    /\ Cardinality(net) < MaxInFlight
    /\ net' = net \cup {[type |-> "request", from |-> a, to |-> b,
                          version_vector |-> GetVersionVector(a),
                          max_events |-> MaxBatch]}
    /\ rounds' = rounds + 1
    /\ UNCHANGED <<logVars, callVars, now, peers, origin, idx, outsideGossip>>

\* SyncManager::handle_request on the node the request was sent to; the
\* response travels back.  since is the version vector of the request.
HandleRequest(m) ==
    /\ m \in net /\ m.type = "request"
    /\ LET out == HandleRequestOut(m.to, m.version_vector, m.max_events) IN
        net' = (net \ {m}) \cup
               {[type |-> "response", from |-> m.to, to |-> m.from,
                 events |-> out.events, version_vector |-> out.version_vector,
                 has_more |-> out.has_more, since |-> m.version_vector]}
    /\ UNCHANGED <<logVars, callVars, now, peers, rounds, origin, idx, outsideGossip>>

\* SyncManager::handle_response on the requester, with peer_id the responder.
HandleResponse(m) ==
    /\ m \in net /\ m.type = "response"
    /\ LET a   == m.to
           out == MergeAll(store[a], vv[a], diskVV[a], idx[a], m.events, m.from, 0)
       IN
        /\ store' = [store EXCEPT ![a] = out.store]
        /\ vv' = [vv EXCEPT ![a] = out.vv]
        /\ diskVV' = [diskVV EXCEPT ![a] = out.disk]
        /\ idx' = [idx EXCEPT ![a] = out.ix]
        /\ peers' = IF out.res = "Ok" /\ m.from \in DOMAIN peers[a]
                    THEN [peers EXCEPT ![a][m.from] =
                            [last_version |-> m.version_vector,
                             last_sync |-> now,
                             sync_count |-> @.sync_count + 1,
                             failures |-> 0]]
                    ELSE peers
    /\ net' = net \ {m}
    /\ UNCHANGED <<callVars, now, rounds, origin, outsideGossip>>

NextSync ==
    \/ \E n \in Nodes, e \in SyncEvents : SyncAppend(n, e)
    \/ \E n \in Nodes, p \in Nodes : RegisterPeer(n, p)
    \/ \E a \in Nodes, b \in Nodes : CreateRequest(a, b)
    \/ \E m \in net : HandleRequest(m)
    \/ \E m \in net : HandleResponse(m)

SpecSync == Init /\ [][NextSync]_vars

\* The event batches of the responses handed to handle_response: whatever a
\* peer sends, events of another world included.
\* A batch of two ends in an event of another world: two events of the log's
\* world in one response are merged as they are in two responses.
ResponseBatches ==
    {<<e>> : e \in Events}
        \cup {<<e1, e2>> : e1 \in Events, e2 \in {e \in Events : e.world # LocalWorld}}

\* SyncManager::handle_response on node n for a response of peer r that did
\* not answer a request of the model: the same call as HandleResponse.  The
\* index kept beside the logs of the sync model is not kept for this log.
LogHandleResponse(n, r, evs) ==
    LET out == MergeAll(store[n], vv[n], diskVV[n], idx[n], evs, r, 0) IN
    /\ store' = [store EXCEPT ![n] = out.store]
    /\ vv' = [vv EXCEPT ![n] = out.vv]
    /\ diskVV' = [diskVV EXCEPT ![n] = out.disk]
    /\ peers' = IF out.res = "Ok" /\ r \in DOMAIN peers[n]
                THEN [peers EXCEPT ![n][r] =
                        [last_version |-> EmptyVV,
                         last_sync |-> now,
                         sync_count |-> @.sync_count + 1,
                         failures |-> 0]]
                ELSE peers
    /\ lastCall' = [NoCall EXCEPT !.op = "handle_response", !.src = r, !.res = out.res,
                                  !.changed = out.store # store[n] \/ out.vv # vv[n]]
    /\ UNCHANGED <<thr, okCount, now, net, rounds, origin, idx, outsideGossip>>

NextLog ==
    \/ \E e \in Events, f \in StorageFaults : LogAppend(LogNode, e, f)
    \/ \E e \in Events, r \in LogSources, f \in StorageFaults : LogMerge(LogNode, e, r, f)
    \/ \E ok \in BOOLEAN : Restart(LogNode, ok)
    \/ \E r \in LogSources \ {LogNode}, evs \in ResponseBatches : LogHandleResponse(LogNode, r, evs)

SpecLog == Init /\ [][NextLog]_vars

\* ------------------------------------------------------------ claims
\* C1: merge is idempotent.  When merge(e, r) is called again right after a
\* merge(e, r) of an event of the log's world that returned Ok (or failed only
\* in persisting the counter), and the duplicate lookup itself does not fail,
\* the second call returns Ok(false) and changes neither the stored events nor
\* the version vector (in memory or persisted).
C1_MergeIdempotent ==
    (lastCall.op = "merge" /\ lastCall.rep /\ lastCall.fault # "has_event")
        => (lastCall.res = "Ok(false)" /\ ~lastCall.changed)

\* A second merge of the same event from the same source has returned.
C1_Witness ==
    /\ lastCall.op = "merge" /\ lastCall.rep /\ lastCall.fault = "none"
    /\ lastCall.res = "Ok(false)" /\ lastCall.src = "B"
    /\ VVGet(vv[LogNode], "B") = 1

\* C2: insertion is exactly-once under concurrency.  Of the calls that carry
\* one event id at most one reports an insertion, and once no call is running
\* the counters of the version vector add up to the number of stored events.
C2_ExactlyOnceConcurrent ==
    /\ \A i \in EventIds : okCount[i] <= 1
    /\ (\A t \in Threads : thr[t].pc = "idle")
          => VVTotal(vv[LogNode]) = EventCount(store[LogNode])

\* C3: no counter of the version vector that get_version_vector reports ever
\* decreases, across append, merge (also with storage errors) and restart.
C3_VVNeverDecreases ==
    [][\A n \in Nodes : \A r \in Nodes :
          VVGet(vv'[n], r) >= VVGet(vv[n], r)]_vars

\* The ids of the events a node stores.
StoredIds(n) == {x.event_id : x \in store[n]}

\* The ids of all events appended so far.
AppendedIds == {i \in EventIds : origin[i] # "none"}

\* C4: compute_delta returns only events the peer is missing.  Every event of
\* a response has, in the responder's index, a counter greater than the counter
\* the request's version vector holds for the event's source replica.
C4_DeltaOnlyMissing ==
    \A m \in net : m.type = "response" =>
        \A k \in 1..Len(m.events) :
            LET at == idx[m.from][m.events[k].event_id]
            IN  at[2] > VVGet(m.since, at[1])

\* No round between any two nodes would insert an event at the requester.
SyncQuiescent ==
    /\ net = {}
    /\ \A a \in Nodes : \A b \in Nodes \ {a} :
          LET out == HandleRequestOut(b, GetVersionVector(a), MaxBatch)
          IN  \A k \in 1..Len(out.events) :
                  HasEvent(store[a], out.events[k].event_id)

\* Every node stores exactly the events that were appended anywhere.
SyncConverged == \A n \in Nodes : StoredIds(n) = AppendedIds

\* C5: anti-entropy converges on the event set.  Stated on the states that
\* request/response rounds can no longer change: there every node stores the
\* union of all appended events.
C5_AntiEntropyConverges == SyncQuiescent => SyncConverged

\* C6: after convergence every version vector maps each replica to the number
\* of events that replica appended.
C6_ConvergedVectors ==
    (net = {} /\ SyncConverged) =>
        \A n \in Nodes : \A r \in Nodes :
            VVGet(vv[n], r) = Cardinality({i \in EventIds : origin[i] = r})

\* C24: append of an event of the log's world whose event_id is already
\* stored, by an earlier append or by a merge, returns DuplicateEvent (when
\* the lookup itself does not fail) and leaves the stored events, their number
\* and every counter of the version vector, in memory and persisted, as they
\* were.
C24_DuplicateAppendRejected ==
    /\ (lastCall.op = "append" /\ lastCall.res = "DuplicateEvent") => ~lastCall.changed
    /\ \A e \in Events, f \in StorageFaults \ {"has_event"} :
          (e.world = LocalWorld /\ HasEvent(store[LogNode], e.event_id)) =>
              LET out == AppendOutcome(store[LogNode], vv[LogNode], diskVV[LogNode],
                                       LogNode, e, f)
              IN  /\ out.res = "DuplicateEvent"
                  /\ out.store = store[LogNode]
                  /\ EventCount(out.store) = EventCount(store[LogNode])
                  /\ out.vv = vv[LogNode]
                  /\ out.disk = diskVV[LogNode]

\* An append was refused as a duplicate of the one event the log holds, which
\* had arrived by merge from B.
C24_Witness ==
    /\ lastCall.op = "append" /\ lastCall.res = "DuplicateEvent"
    /\ EventCount(store[LogNode]) = 1
    /\ VVGet(vv[LogNode], "B") = 1
    /\ VVGet(vv[LogNode], LogNode) = 0

\* C25: every event a log stores has the log's world.  append and merge of an
\* event of another world return WorldMismatch, whatever the storage does, and
\* change neither the stored events nor the version vector; after any sequence
\* of append, merge and handle_response calls (and restarts) no stored event
\* has a foreign world.
C25_OnlyLocalWorldStored ==
    /\ \A x \in store[LogNode] : x.world = LocalWorld
    /\ (lastCall.op \in {"append", "merge"} /\ lastCall.res = "WorldMismatch") =>
          ~lastCall.changed
    /\ \A e \in Events, r \in LogSources, f \in StorageFaults :
          e.world # LocalWorld =>
              LET a == AppendOutcome(store[LogNode], vv[LogNode], diskVV[LogNode],
                                     LogNode, e, f)
                  m == MergeOutcome(store[LogNode], vv[LogNode], diskVV[LogNode], e, r, f)
              IN  /\ a.res = "WorldMismatch" /\ m.res = "WorldMismatch"
                  /\ a.store = store[LogNode] /\ m.store = store[LogNode]
                  /\ a.vv = vv[LogNode] /\ m.vv = vv[LogNode]
                  /\ a.disk = diskVV[LogNode] /\ m.disk = diskVV[LogNode]

\* handle_response stopped at an event of another world after it had merged
\* an event of the log's world.
C25_Witness ==
    /\ lastCall.op = "handle_response"
    /\ lastCall.res = "WorldMismatch"
    /\ lastCall.changed
    /\ store[LogNode] # {}

\* ------------------------------------------------------------ membership
WorldPhrase == "phrase"              \* MembershipManager.world_phrase
Phrases == {WorldPhrase, "other"}    \* phrases offered to admit_peer
RATE_WINDOW == 60                    \* Duration::from_secs(60)
\* Instants at which calls are made (seconds since the manager was created).
ClockTimes == {0, 59, 60}
SuspendDurations == {0, 60}
\* Reputation is kept in halves: REPUTATION_ONE stands for 1.0.
REPUTATION_ONE == 2
ReputationDeltas == {-1, 1}

\* HashMap::insert / entry().or_insert()
MapPut(m, k, v) == [x \in (DOMAIN m) \cup {k} |-> IF x = k THEN v ELSE m[x]]

Clamp(x, lo, hi) == IF x < lo THEN lo ELSE IF x > hi THEN hi ELSE x

\* The Member that admit_peer inserts.  joined_at and event_count are left out:
\* no call modelled here reads or changes them after the insertion.
NewMember(t) ==
    [status |-> "Admitted", until |-> 0, last_seen |-> t,
     reputation |-> REPUTATION_ONE]

\* A rate limit that counts the calls it refuses as well.
CheckRateLimitCountsRefused(limits, p, t, limit) ==
    LET entry == IF p \in DOMAIN limits THEN limits[p]
                 ELSE [count |-> 0, window_start |-> t]
        state == IF t - entry.window_start >= RATE_WINDOW
                 THEN [count |-> 0, window_start |-> t]
                 ELSE entry
    IN  [limits |-> MapPut(limits, p, [state EXCEPT !.count = @ + 1]),
         res |-> IF state.count >= limit THEN "RateLimited" ELSE "Ok"]

\* MembershipManager::check_rate_limit and Relay::check_rate_limit (the same
\* code): a fixed window that starts at the first call and restarts at the first
\* call made RATE_WINDOW or more after its start.
CheckRateLimit(limits, p, t, limit) ==
    LET entry == IF p \in DOMAIN limits THEN limits[p]
                 ELSE [count |-> 0, window_start |-> t]
        state == IF t - entry.window_start >= RATE_WINDOW
                 THEN [count |-> 0, window_start |-> t]
                 ELSE entry
    IN  IF state.count >= limit
        THEN [limits |-> MapPut(limits, p, state), res |-> "RateLimited"]
        ELSE [limits |-> MapPut(limits, p, [state EXCEPT !.count = @ + 1]),
              res |-> "Ok"]

\* MembershipManager::admit_peer
AdmitOutcome(mem, ban, p, phrase, t) ==
    IF p \in ban THEN [members |-> mem, res |-> "Banned"]
    ELSE IF phrase # WorldPhrase THEN [members |-> mem, res |-> "InvalidWorldPhrase"]
    ELSE [members |-> MapPut(mem, p, NewMember(t)), res |-> "Ok"]

\* MembershipManager::is_admitted
IsAdmitted(mem, p) == p \in DOMAIN mem /\ mem[p].status = "Admitted"

\* The match on the member's status in check_authorized: "pass" or the error.
StatusCheck(mem, p, t) ==
    IF p \notin DOMAIN mem THEN "NotAdmitted"
    ELSE IF mem[p].status = "Admitted" THEN "pass"
    ELSE IF mem[p].status = "Suspended" /\ t >= mem[p].until THEN "pass"
    ELSE IF mem[p].status = "Suspended" THEN "NotAdmitted"
    ELSE IF mem[p].status = "Banned" THEN "Banned"
    ELSE "NotAdmitted"

\* get_mut(p).last_seen = now, when p is a member
TouchLastSeen(mem, p, t) ==
    IF p \in DOMAIN mem THEN [mem EXCEPT ![p].last_seen = t] ELSE mem

\* MembershipManager::check_authorized
CheckAuthorizedOutcome(mem, ban, limits, p, t, limit) ==
    IF p \in ban THEN [members |-> mem, limits |-> limits, res |-> "Banned"]
    ELSE IF StatusCheck(mem, p, t) # "pass"
    THEN [members |-> mem, limits |-> limits, res |-> StatusCheck(mem, p, t)]
    ELSE LET rl == CheckRateLimit(limits, p, t, limit)
         IN  IF rl.res # "Ok"
             THEN [members |-> mem, limits |-> rl.limits, res |-> rl.res]
             ELSE [members |-> TouchLastSeen(mem, p, t), limits |-> rl.limits,
                   res |-> "Ok"]

\* MembershipManager::suspend_peer
SuspendOutcome(mem, p, t, d) ==
    IF p \in DOMAIN mem
    THEN [mem EXCEPT ![p].status = "Suspended", ![p].until = t + d]
    ELSE mem

\* The second half of ban_peer: the member's status becomes Banned.
MarkBanned(mem, p) ==
    IF p \in DOMAIN mem THEN [mem EXCEPT ![p].status = "Banned"] ELSE mem

\* MembershipManager::update_reputation
ReputationOutcome(mem, p, delta) ==
    IF p \in DOMAIN mem
    THEN [mem EXCEPT ![p].reputation = Clamp(@ + delta, 0, REPUTATION_ONE)]
    ELSE mem

\* The Ok times that lie less than one window before t.
Recent(times, t) == SelectSeq(times, LAMBDA x : t - x < RATE_WINDOW)

outsideMember == <<logVars, callVars, syncVars, onionVars, otherVars>>

AdmitPeer(p, phrase) ==
    /\ members' = AdmitOutcome(members, banned, p, phrase, now).members
    /\ UNCHANGED <<banned, rate_limits, okTimes, mthr, banReturned, now, outsideMember>>

CheckAuthorized(p) ==
    LET out == CheckAuthorizedOutcome(members, banned, rate_limits, p, now, RateLimitRpm)
    IN  /\ members' = out.members
        /\ rate_limits' = out.limits
        /\ okTimes' = IF out.res = "Ok"
                      THEN [okTimes EXCEPT ![p] = Append(@, now)]
                      ELSE okTimes
        /\ UNCHANGED <<banned, mthr, banReturned, now, outsideMember>>

SuspendPeer(p, d) ==
    /\ members' = SuspendOutcome(members, p, now, d)
    /\ UNCHANGED <<banned, rate_limits, okTimes, mthr, banReturned, now, outsideMember>>

BanPeer(p) ==
    /\ banned' = banned \cup {p}
    /\ members' = MarkBanned(members, p)
    /\ banReturned' = banReturned \cup {p}
    /\ UNCHANGED <<rate_limits, okTimes, mthr, now, outsideMember>>

UpdateReputation(p, delta) ==
    /\ members' = ReputationOutcome(members, p, delta)
    /\ UNCHANGED <<banned, rate_limits, okTimes, mthr, banReturned, now, outsideMember>>

\* Time passes; Ok times older than one window are forgotten.
Tick(t) ==
    /\ t > now
    /\ now' = t
    /\ okTimes' = [p \in MemberPeers |-> Recent(okTimes[p], t)]
    /\ UNCHANGED <<members, banned, rate_limits, mthr, banReturned, outsideMember>>

NextMember ==
    \/ \E p \in MemberPeers, phrase \in Phrases : AdmitPeer(p, phrase)
    \/ \E p \in MemberPeers : CheckAuthorized(p)
    \/ \E p \in MemberPeers, d \in SuspendDurations : SuspendPeer(p, d)
    \/ \E p \in MemberPeers : BanPeer(p)
    \/ \E p \in MemberPeers, delta \in ReputationDeltas : UpdateReputation(p, delta)
    \/ \E t \in ClockTimes : Tick(t)

SpecMember == Init /\ [][NextMember]_vars

\* C7: in every interval of 60 seconds at most rate_limit_rpm calls of
\* check_authorized for one peer return Ok.  Checked on the interval that ends
\* at the current instant, for every instant.
C7_RateLimitSlidingWindow ==
    \A p \in MemberPeers :
        Cardinality({k \in 1..Len(okTimes[p]) : now - okTimes[p][k] < RATE_WINDOW})
            <= RateLimitRpm

\* ------------------------------------------- membership, concurrent callers
\* The manager keeps members, banned and rate_limits under three separate
\* locks; a call is atomic only for as long as it holds one of them.  Each step
\* below is one lock acquisition of a call made by thread t.
ConcAdmitCheck(t, p, phrase) ==
    /\ mthr[t].pc = "idle"
    /\ mthr' = [mthr EXCEPT ![t] =
                  IF p \in banned \/ phrase # WorldPhrase
                  THEN IdleCaller
                  ELSE [pc |-> "admit_insert", op |-> "admit_peer", p |-> p]]
    /\ UNCHANGED <<members, banned, rate_limits, okTimes, banReturned, now, outsideMember>>

ConcAdmitInsert(t) ==
    /\ mthr[t].pc = "admit_insert"
    /\ members' = MapPut(members, mthr[t].p, NewMember(now))
    /\ mthr' = [mthr EXCEPT ![t] = IdleCaller]
    /\ UNCHANGED <<banned, rate_limits, okTimes, banReturned, now, outsideMember>>

ConcBanInsert(t, p) ==
    /\ mthr[t].pc = "idle"
    /\ banned' = banned \cup {p}
    /\ mthr' = [mthr EXCEPT ![t] = [pc |-> "ban_status", op |-> "ban_peer", p |-> p]]
    /\ UNCHANGED <<members, rate_limits, okTimes, banReturned, now, outsideMember>>

ConcBanStatus(t) ==
    /\ mthr[t].pc = "ban_status"
    /\ members' = MarkBanned(members, mthr[t].p)
    /\ banReturned' = banReturned \cup {mthr[t].p}
    /\ mthr' = [mthr EXCEPT ![t] = IdleCaller]
    /\ UNCHANGED <<banned, rate_limits, okTimes, now, outsideMember>>

ConcAuthBanned(t, p) ==
    /\ mthr[t].pc = "idle"
    /\ mthr' = [mthr EXCEPT ![t] =
                  IF p \in banned THEN IdleCaller
                  ELSE [pc |-> "auth_status", op |-> "check_authorized", p |-> p]]
    /\ UNCHANGED <<members, banned, rate_limits, okTimes, banReturned, now, outsideMember>>

ConcAuthStatus(t) ==
    /\ mthr[t].pc = "auth_status"
    /\ mthr' = [mthr EXCEPT ![t] =
                  IF StatusCheck(members, mthr[t].p, now) = "pass"
                  THEN [@ EXCEPT !.pc = "auth_rate"]
                  ELSE IdleCaller]
    /\ UNCHANGED <<members, banned, rate_limits, okTimes, banReturned, now, outsideMember>>

ConcAuthRate(t) ==
    /\ mthr[t].pc = "auth_rate"
    /\ LET rl == CheckRateLimit(rate_limits, mthr[t].p, now, RateLimitRpm)
       IN  /\ rate_limits' = rl.limits
           /\ mthr' = [mthr EXCEPT ![t] =
                         IF rl.res = "Ok" THEN [@ EXCEPT !.pc = "auth_seen"]
                         ELSE IdleCaller]
    /\ UNCHANGED <<members, banned, okTimes, banReturned, now, outsideMember>>

ConcAuthSeen(t) ==
    /\ mthr[t].pc = "auth_seen"
    /\ members' = TouchLastSeen(members, mthr[t].p, now)
    /\ okTimes' = [okTimes EXCEPT ![mthr[t].p] = Append(@, now)]
    /\ mthr' = [mthr EXCEPT ![t] = IdleCaller]
    /\ UNCHANGED <<banned, rate_limits, banReturned, now, outsideMember>>

\* suspend_peer and update_reputation hold the members lock for the whole call.
ConcSuspend(t, p, d) ==
    /\ mthr[t].pc = "idle"
    /\ members' = SuspendOutcome(members, p, now, d)
    /\ UNCHANGED <<banned, rate_limits, okTimes, mthr, banReturned, now, outsideMember>>

ConcUpdateReputation(t, p, delta) ==
    /\ mthr[t].pc = "idle"
    /\ members' = ReputationOutcome(members, p, delta)
    /\ UNCHANGED <<banned, rate_limits, okTimes, mthr, banReturned, now, outsideMember>>

NextMemberConc ==
    \/ \E t \in Threads, p \in MemberPeers, phrase \in Phrases : ConcAdmitCheck(t, p, phrase)
    \/ \E t \in Threads : ConcAdmitInsert(t)
    \/ \E t \in Threads, p \in MemberPeers : ConcBanInsert(t, p)
    \/ \E t \in Threads : ConcBanStatus(t)
    \/ \E t \in Threads, p \in MemberPeers : ConcAuthBanned(t, p)
    \/ \E t \in Threads : ConcAuthStatus(t)
    \/ \E t \in Threads : ConcAuthRate(t)
    \/ \E t \in Threads : ConcAuthSeen(t)
    \/ \E t \in Threads, p \in MemberPeers, d \in SuspendDurations : ConcSuspend(t, p, d)
    \/ \E t \in Threads, p \in MemberPeers, delta \in ReputationDeltas :
           ConcUpdateReputation(t, p, delta)

SpecMemberConc == Init /\ [][NextMemberConc]_vars

\* C8: a ban is permanent.  In every state after ban_peer(p) has returned,
\* whatever calls are still running, admit_peer(p) with the correct phrase
\* fails with Banned, check_authorized(p) fails with Banned and is_admitted(p)
\* is false.
C8_BanIsPermanent ==
    \A p \in banReturned :
        /\ AdmitOutcome(members, banned, p, WorldPhrase, now).res = "Banned"
        /\ CheckAuthorizedOutcome(members, banned, rate_limits, p, now,
                                  RateLimitRpm).res = "Banned"
        /\ ~IsAdmitted(members, p)

\* C22: a suspension blocks for its whole duration.  When p is suspended
\* until an instant that the clock has not reached after the next membership
\* call, whatever that call is, check_authorized(p) then fails (with
\* NotAdmitted, or with Banned once p was banned); and whenever the instant has
\* been reached, the admission check of the member still Suspended passes.
Suspended(p) == p \in DOMAIN members /\ members[p].status = "Suspended"

C22_SuspensionBlocks ==
    [][\A p \in MemberPeers :
          /\ (Suspended(p) /\ now' < members[p].until) =>
                CheckAuthorizedOutcome(members', banned', rate_limits', p, now',
                                       RateLimitRpm).res \in {"NotAdmitted", "Banned"}
          /\ (Suspended(p) /\ now >= members[p].until) =>
                StatusCheck(members, p, now) = "pass"]_vars

\* ------------------------------------------------------------------ onion
\* Byte strings are sequences.  A plain byte b is the element <<b>>.  The AEAD
\* (ChaCha20-Poly1305) is ideal: the ciphertext of a plaintext pt under (key,
\* nonce) is Len(pt) + TAG_LEN elements long, its first element is the sealed
\* box <<key, nonce, pt>> and the other elements are the filler <<>>; it opens
\* only as a whole and only under the same key and nonce.  Hashes (BLAKE3) are
\* free constructors: different inputs give different outputs.
PEER_ID_LEN == 32
HEADER_SIZE == 64
PADDING_LEN == 31
TAG_LEN == 16
OnionPeers == {1, 2}                 \* peer ids [b; 32], named by the byte b
CircuitSecret == "s"                 \* the shared secret the hop keys derive from
CircuitId == "c"
OnionPayloads == {<<>>, << <<7>> >>, << <<7>>, <<0>> >>}

Repeat(b, n) == [i \in 1..n |-> b]
PeerIdBytes(p) == Repeat(<<p>>, PEER_ID_LEN)

Seal(key, nonce, pt) == << <<key, nonce, pt>> >> \o Repeat(<<>>, Len(pt) + TAG_LEN - 1)

Open(key, nonce, ct) ==
    IF /\ Len(ct) >= TAG_LEN
       /\ Len(ct[1]) = 3
       /\ ct[1][1] = key
       /\ ct[1][2] = nonce
       /\ ct = Seal(key, nonce, ct[1][3])
    THEN [ok |-> TRUE, pt |-> ct[1][3]]
    ELSE [ok |-> FALSE, pt |-> <<>>]

\* OnionHeader::new
NewHeader(next_hop, is_final) ==
    [next_hop |-> next_hop, is_final |-> is_final, padding |-> Repeat(<<0>>, PADDING_LEN)]

\* OnionHeader::to_bytes
HeaderToBytes(h) == h.next_hop \o << <<IF h.is_final THEN 1 ELSE 0>> >> \o h.padding

\* OnionHeader::from_bytes, for bytes of at least HEADER_SIZE elements
HeaderFromBytes(bytes) ==
    [next_hop |-> SubSeq(bytes, 1, PEER_ID_LEN),
     is_final |-> bytes[PEER_ID_LEN + 1] # <<0>>,
     padding  |-> SubSeq(bytes, PEER_ID_LEN + 2, HEADER_SIZE)]

\* OnionHopKey::derive
Derive(peer_id, shared_secret, hop_index) ==
    LET session_key == <<"terrain-gossip-hop-key-v1:", shared_secret, hop_index>>
    IN  [peer_id |-> peer_id,
         session_key |-> session_key,
         nonce |-> <<"terrain-gossip-hop-nonce-v1:", session_key>>]

\* NextHopOf with the off-by-one fault of indexing the hop itself: every layer
\* names the hop that opens it.
NextHopOfSelf(keys, i) == keys[Len(keys) - i].peer_id

\* The next_hop written into the layer that step i of the reversed loop of
\* OnionCell::encrypt builds (i = 0 is the innermost layer, for the last hop).
NextHopOf(keys, i) ==
    IF i = 0 THEN keys[Len(keys) - i].peer_id
    ELSE keys[Len(keys) - i + 1].peer_id

\* Steps i, i+1, ... of the loop of OnionCell::encrypt, applied to current.
RECURSIVE WrapLayers(_, _, _)
WrapLayers(keys, i, current) ==
    IF i >= Len(keys) THEN current
    ELSE LET hop_key == keys[Len(keys) - i]
             header == NewHeader(NextHopOf(keys, i), i = 0)
             plaintext == HeaderToBytes(header) \o current
         IN  WrapLayers(keys, i + 1, Seal(hop_key.session_key, hop_key.nonce, plaintext))

\* OnionCell::encrypt
OnionCellEncrypt(circuit_id, payload, keys) ==
    [circuit_id |-> circuit_id, payload |-> WrapLayers(keys, 0, payload), hop_index |-> 0]

NoHeader == NewHeader(<<>>, FALSE)

\* OnionCell::decrypt_layer
DecryptLayer(c, key) ==
    LET opened == Open(key.session_key, key.nonce, c.payload) IN
    IF ~opened.ok THEN [res |-> "DecryptionFailed", cell |-> c, header |-> NoHeader]
    ELSE IF Len(opened.pt) < HEADER_SIZE
    THEN [res |-> "InvalidLayer", cell |-> c, header |-> NoHeader]
    ELSE [res |-> "Ok",
          cell |-> [c EXCEPT !.payload = SubSeq(opened.pt, HEADER_SIZE + 1, Len(opened.pt)),
                             !.hop_index = c.hop_index + 1],
          header |-> HeaderFromBytes(SubSeq(opened.pt, 1, HEADER_SIZE))]

\* The (key, nonce) pairs that OnionCell::encrypt uses, in the order of its loop.
SealedWith(keys) ==
    [i \in 1..Len(keys) |->
        <<keys[Len(keys) - i + 1].session_key, keys[Len(keys) - i + 1].nonce>>]

outsideOnion == <<logVars, callVars, now, syncVars, memberVars, otherVars>>

\* The client derives the key of the next hop of the path it is building.
AddHop(p) ==
    /\ status = "Building"
    /\ Len(hop_keys) < MaxHops
    /\ hop_keys' = Append(hop_keys, Derive(PeerIdBytes(p), CircuitSecret, Len(hop_keys)))
    /\ UNCHANGED <<status, request_count, last_used, cell, sent, hdrs, lastLayer, sealLog,
                   outsideOnion>>

\* CircuitManager::mark_ready
MarkReady ==
    /\ status = "Building"
    /\ status' = "Ready"
    /\ UNCHANGED <<hop_keys, request_count, last_used, cell, sent, hdrs, lastLayer, sealLog,
                   outsideOnion>>

\* ClientCircuit::encrypt_request on a Ready circuit (on any other circuit the
\* call returns BuildFailed and changes nothing).
EncryptRequest(payload) ==
    /\ status = "Ready"
    /\ request_count < MaxRequests
    /\ cell' = OnionCellEncrypt(CircuitId, payload, hop_keys)
    /\ last_used' = now
    /\ request_count' = request_count + 1
    /\ sent' = payload
    /\ hdrs' = <<>>
    /\ lastLayer' = "none"
    /\ sealLog' = sealLog \o SealedWith(hop_keys)
    /\ UNCHANGED <<hop_keys, status, outsideOnion>>

\* The hop the cell has reached opens its layer with its own key.
DecryptAtHop ==
    /\ cell # NoCell
    /\ lastLayer \in {"none", "Ok"}
    /\ cell.hop_index < Len(hop_keys)
    /\ LET out == DecryptLayer(cell, hop_keys[cell.hop_index + 1])
       IN  /\ cell' = out.cell
           /\ lastLayer' = out.res
           /\ hdrs' = IF out.res = "Ok" THEN Append(hdrs, out.header) ELSE hdrs
    /\ UNCHANGED <<hop_keys, status, request_count, last_used, sent, sealLog, outsideOnion>>

NextOnion ==
    \/ \E p \in OnionPeers : AddHop(p)
    \/ MarkReady
    \/ \E payload \in OnionPayloads : EncryptRequest(payload)
    \/ DecryptAtHop

SpecOnion == Init /\ [][NextOnion]_vars

\* C9: onion round trip.  For a path of k >= 1 hops, decrypt_layer at each hop
\* in path order with that hop's key succeeds; the header obtained at hop i < k
\* has is_final = false and names hop i+1, the header at hop k has is_final =
\* true, and after hop k the cell holds the payload that was encrypted.
C9_OnionRoundTrip ==
    (request_count > 0 /\ Len(hop_keys) >= 1) =>
        /\ lastLayer \in {"none", "Ok"}
        /\ Len(hdrs) = cell.hop_index
        /\ \A i \in 1..Len(hdrs) :
              /\ hdrs[i].is_final = (i = Len(hop_keys))
              /\ i < Len(hop_keys) => hdrs[i].next_hop = hop_keys[i + 1].peer_id
        /\ Len(hdrs) = Len(hop_keys) => cell.payload = sent

C9_Witness ==
    /\ Len(hop_keys) = MaxHops
    /\ Len(hdrs) = MaxHops
    /\ hdrs[MaxHops].is_final
    /\ hop_keys[1].peer_id # hop_keys[2].peer_id
    /\ hdrs[1].next_hop = hop_keys[2].peer_id
    /\ sent # <<>>
    /\ cell.payload = sent

\* C10: no (key, nonce) pair is used for two encryptions.
C10_NoNonceReuse ==
    \A i \in 1..Len(sealLog) : \A j \in 1..Len(sealLog) :
        i # j => sealLog[i] # sealLog[j]

\* ------------------------------------------- transport circuits (net crate)
NetCircuitIds == {7, 8}
NetSeqs == {0, 1}
NetPayloads == {<< <<80>> >>}
U64_BYTES == 8
NONCE_PREFIX_LEN == 4

\* u64::to_le_bytes, and the first k bytes of it
RECURSIVE LEBytes(_, _)
LEBytes(n, k) == IF k = 0 THEN <<>> ELSE << <<n % 256>> >> \o LEBytes(n \div 256, k - 1)

\* The 12-byte nonce of SessionKeys: four zero bytes, then the counter (LE).
CounterNonce(counter) == Repeat(<<0>>, NONCE_PREFIX_LEN) \o LEBytes(counter, U64_BYTES)

\* aad = circuit_id || seq, each as 8 bytes LE
OnionAad(circuit_id, seq) == LEBytes(circuit_id, U64_BYTES) \o LEBytes(seq, U64_BYTES)

\* The ideal AEAD with associated data: as Seal and Open, the box holding the
\* associated data too.
SealAad(key, nonce, aad, pt) ==
    << <<key, nonce, aad, pt>> >> \o Repeat(<<>>, Len(pt) + TAG_LEN - 1)

OpenAad(key, nonce, aad, ct) ==
    IF /\ Len(ct) >= TAG_LEN
       /\ Len(ct[1]) = 4
       /\ ct[1][1] = key
       /\ ct[1][2] = nonce
       /\ ct[1][3] = aad
       /\ ct = SealAad(key, nonce, aad, ct[1][4])
    THEN [ok |-> TRUE, pt |-> ct[1][4]]
    ELSE [ok |-> FALSE, pt |-> <<>>]

\* SessionKeys::derive: HKDF over the shared secret, the info naming the
\* direction; the side with the smaller public key is the initiator.
SessionKeysDerive(shared_secret, is_initiator) ==
    LET enc_info == IF is_initiator THEN "initiator_to_responder"
                    ELSE "responder_to_initiator"
        dec_info == IF is_initiator THEN "responder_to_initiator"
                    ELSE "initiator_to_responder"
    IN  [encrypt_key |-> <<"hkdf", shared_secret, enc_info>>,
         decrypt_key |-> <<"hkdf", shared_secret, dec_info>>,
         nonce_counter |-> 0]

\* SessionKeys::encrypt: the ciphertext and the keys with the counter advanced
SessionEncrypt(keys, plaintext, associated_data) ==
    [ct |-> SealAad(keys.encrypt_key, CounterNonce(keys.nonce_counter),
                    associated_data, plaintext),
     keys |-> [keys EXCEPT !.nonce_counter = @ + 1]]

\* SessionKeys::decrypt
SessionDecrypt(keys, ciphertext, associated_data, nonce_counter) ==
    OpenAad(keys.decrypt_key, CounterNonce(nonce_counter), associated_data, ciphertext)

\* Circuit::encrypt_onion: hops j, j-1, ... 1 seal the payload in turn.
RECURSIVE EncryptOnionFrom(_, _, _, _)
EncryptOnionFrom(hops, j, payload, aad) ==
    IF j = 0 THEN [payload |-> payload, hops |-> hops]
    ELSE LET out == SessionEncrypt(hops[j].session_keys, payload, aad)
         IN  EncryptOnionFrom([hops EXCEPT ![j].session_keys = out.keys], j - 1,
                              out.ct, aad)

EncryptOnionOut(hops, plaintext, circuit_id, seq) ==
    EncryptOnionFrom(hops, Len(hops), plaintext, OnionAad(circuit_id, seq))

\* Circuit::decrypt_layer on a circuit whose hops hold the given keys
NetDecryptLayerOut(keys, hop_index, ciphertext, circuit_id, seq) ==
    IF hop_index >= Len(keys) THEN [res |-> "InvalidHopIndex", pt |-> <<>>]
    ELSE LET opened == SessionDecrypt(keys[hop_index + 1], ciphertext,
                                      OnionAad(circuit_id, seq), seq)
         IN  IF opened.ok THEN [res |-> "Ok", pt |-> opened.pt]
             ELSE [res |-> "DecryptionFailed", pt |-> <<>>]

outsideNet == <<logVars, callVars, now, syncVars, memberVars, onionVars, frameVars,
                routerVars, routerThreadVars, tableVars, serviceVars>>

\* CircuitBuilder::add_hop: a key exchange with the hop; the hop derives the
\* keys of the other role from the same shared secret.
NetAddHop(peer, is_initiator) ==
    /\ cells_sent = 0
    /\ Len(circuit_hops) < MaxNetHops
    /\ LET shared == <<"dh", Len(circuit_hops)>>
       IN  /\ circuit_hops' = Append(circuit_hops,
                  [peer_id |-> peer, session_keys |-> SessionKeysDerive(shared, is_initiator)])
           /\ relay_keys' = Append(relay_keys, SessionKeysDerive(shared, ~is_initiator))
    /\ UNCHANGED <<wire, lastOpen, cells_sent, outsideNet>>

\* Circuit::encrypt_onion; the cell goes on the wire with its circuit_id and seq.
EncryptOnion(plaintext, circuit_id, seq) ==
    /\ Len(circuit_hops) >= 1
    /\ cells_sent < MaxCells
    /\ LET out == EncryptOnionOut(circuit_hops, plaintext, circuit_id, seq)
       IN  /\ circuit_hops' = out.hops
           /\ wire' = [live |-> TRUE, payload |-> out.payload, circuit_id |-> circuit_id,
                       seq |-> seq, layer |-> 0]
    /\ cells_sent' = cells_sent + 1
    /\ lastOpen' = NoOpen
    /\ UNCHANGED <<relay_keys, outsideNet>>

\* The hop the cell has reached calls decrypt_layer with a circuit_id and seq.
NetDecryptLayer(circuit_id, seq) ==
    /\ wire.live
    /\ wire.layer < Len(relay_keys)
    /\ LET out == NetDecryptLayerOut(relay_keys, wire.layer, wire.payload, circuit_id, seq)
       IN  /\ lastOpen' = [res |-> out.res, circuit_id |-> circuit_id, seq |-> seq]
           /\ wire' = IF out.res = "Ok"
                      THEN [wire EXCEPT !.payload = out.pt, !.layer = @ + 1]
                      ELSE wire
    /\ UNCHANGED <<circuit_hops, relay_keys, cells_sent, outsideNet>>

NextNet ==
    \/ \E peer \in OnionPeers, is_initiator \in BOOLEAN : NetAddHop(peer, is_initiator)
    \/ \E plaintext \in NetPayloads, c \in NetCircuitIds, q \in NetSeqs :
           EncryptOnion(plaintext, c, q)
    \/ \E c \in NetCircuitIds, q \in NetSeqs : NetDecryptLayer(c, q)

SpecNet == Init /\ [][NextNet]_vars

\* C11: every onion layer is bound to its (circuit_id, seq).  A decrypt_layer
\* call by the hop holding the matching key succeeds when it is given the
\* (circuit_id, seq) the layer was sealed under, whatever the seq and however
\* many cells were sent before, and fails under any other circuit_id or seq.
C11_LayerBoundToCircuitSeq ==
    lastOpen.res # "none" =>
        ((lastOpen.res = "Ok") <=>
            (lastOpen.circuit_id = wire.circuit_id /\ lastOpen.seq = wire.seq))

\* ---------------------------------------------------------- frame codec
MAX_FRAME_SIZE == 16777216           \* 16 * 1024 * 1024
LENGTH_PREFIX_LEN == 4
FRAME_HEADER_LEN == 5                \* 4 length bytes and the type byte
CIRCUIT_CELL == 32                   \* FrameType::CircuitCell
FrameTypes == {0, 1, 10, 11, 12, 20, 21, 30, 31, 32, 33, 40, 41}

\* BytesMut::put_u32: k bytes, big-endian
RECURSIVE BEBytes(_, _)
BEBytes(n, k) == IF k = 0 THEN <<>> ELSE BEBytes(n \div 256, k - 1) \o << <<n % 256>> >>

\* u32::from_be_bytes of the first four bytes.  Lengths of 2^25 and more are
\* reported as 2^25: they are above MAX_FRAME_SIZE all the same.
LengthPrefix(src) ==
    IF src[1][1] > 1 THEN 2 * MAX_FRAME_SIZE
    ELSE ((src[1][1] * 256 + src[2][1]) * 256 + src[3][1]) * 256 + src[4][1]

\* Vec::resize(n, 0) on a vector not longer than n
ZeroPad(payload, n) == payload \o Repeat(<<0>>, n - Len(payload))

\* FrameCodec::encode: the bytes appended to dst, or the error
FrameEncode(fixed_cell_bytes, item) ==
    LET fixed == fixed_cell_bytes > 0 /\ item.frame_type = CIRCUIT_CELL IN
    IF fixed /\ Len(item.payload) > fixed_cell_bytes
    THEN [res |-> "TooLarge", bytes |-> <<>>]
    ELSE LET payload == IF fixed THEN ZeroPad(item.payload, fixed_cell_bytes)
                        ELSE item.payload
             length == 1 + Len(payload)
         IN  IF length > MAX_FRAME_SIZE THEN [res |-> "TooLarge", bytes |-> <<>>]
             ELSE [res |-> "Ok",
                   bytes |-> BEBytes(length, LENGTH_PREFIX_LEN)
                                 \o << <<item.frame_type>> >> \o payload]

NoFrame == [frame_type |-> 0, payload |-> <<>>]

\* FrameCodec::decode: the result, the frame, and what is left in src.  With a
\* declared length of 0 and five bytes buffered, the byte after the prefix is
\* taken as the type; if it is a known type, payload_len = length - 1
\* underflows: the subtraction panics where overflow checks are on, and
\* elsewhere wraps to usize::MAX and split_to panics on it.  Either way the
\* call panics after the five bytes were consumed.
FrameDecode(src) ==
    IF Len(src) < FRAME_HEADER_LEN THEN [res |-> "None", frame |-> NoFrame, rest |-> src]
    ELSE LET length == LengthPrefix(src) IN
         IF length > MAX_FRAME_SIZE THEN [res |-> "TooLarge", frame |-> NoFrame, rest |-> src]
         ELSE IF Len(src) < LENGTH_PREFIX_LEN + length
         THEN [res |-> "None", frame |-> NoFrame, rest |-> src]
         ELSE IF src[FRAME_HEADER_LEN][1] \notin FrameTypes
         THEN [res |-> "Serialization", frame |-> NoFrame,
               rest |-> SubSeq(src, LENGTH_PREFIX_LEN + 1, Len(src))]
         ELSE IF length = 0
         THEN [res |-> "Panic", frame |-> NoFrame,
               rest |-> SubSeq(src, FRAME_HEADER_LEN + 1, Len(src))]
         ELSE [res |-> "Ok",
               frame |-> [frame_type |-> src[FRAME_HEADER_LEN][1],
                          payload |-> SubSeq(src, FRAME_HEADER_LEN + 1,
                                             LENGTH_PREFIX_LEN + length)],
               rest |-> SubSeq(src, LENGTH_PREFIX_LEN + length + 1, Len(src))]

outsideFrame == <<logVars, callVars, now, syncVars, memberVars, netVars, routerVars,
                  routerThreadVars, tableVars, serviceVars>>

\* The cell is sent to the hop it has reached as a CircuitCell frame: encoded
\* by the sender's codec and decoded by the receiver's, once per hop.
TransportCell ==
    /\ cell # NoCell
    /\ lastLayer \in {"none", "Ok"}
    /\ cell.hop_index < Len(hop_keys)
    /\ ~(framed.request = request_count /\ framed.hop_index = cell.hop_index)
    /\ LET enc == FrameEncode(FixedCellBytes, [frame_type |-> CIRCUIT_CELL,
                                               payload |-> cell.payload])
           dec == FrameDecode(enc.bytes)
       IN  IF enc.res # "Ok"
           THEN /\ framed' = [request |-> request_count, hop_index |-> cell.hop_index,
                              res |-> enc.res, len |-> 0]
                /\ UNCHANGED cell
           ELSE /\ framed' = [request |-> request_count, hop_index |-> cell.hop_index,
                              res |-> dec.res, len |-> Len(dec.frame.payload)]
                /\ cell' = [cell EXCEPT !.payload = dec.frame.payload]
    /\ UNCHANGED <<hop_keys, status, request_count, last_used, sent, hdrs, lastLayer,
                   sealLog, outsideFrame>>

NextFramed ==
    \/ \E p \in OnionPeers : AddHop(p)
    \/ MarkReady
    \/ \E payload \in OnionPayloads : EncryptRequest(payload)
    \/ TransportCell
    \/ DecryptAtHop

SpecFramed == Init /\ [][NextFramed]_vars

\* C12: with a fixed_cell_bytes budget N a cell travels as exactly N bytes, and
\* after it has passed through the frame codec every hop's decrypt_layer still
\* succeeds and the last hop recovers the original payload.
C12_FixedCellRoundTrip ==
    (framed.res = "Ok" /\ framed.request = request_count) =>
        /\ framed.len = FixedCellBytes
        /\ lastLayer \in {"none", "Ok"}
        /\ Len(hdrs) = Len(hop_keys) => cell.payload = sent

\* ---------------------------------------------------------------------------
\* routerd: the terrain map (crates/routerd/src/terrain.rs)
\*
\* Pheromone strengths are f64 in the code.  Here they are fixed-point numbers
\* in tenths, so that MIN_PHEROMONE (0.1) is 1 and MAX_PHEROMONE (100.0) is 1000.
\* exp(-PHEROMONE_DECAY_RATE * elapsed) halves every ln 2 / 0.01 = 69.3 seconds;
\* it is taken at whole half-lives of 70 seconds.
\* ---------------------------------------------------------------------------
MIN_PHEROMONE == 1
MAX_PHEROMONE == 1000
HALF_LIFE == 70
\* 2^-20 of any strength up to MAX_PHEROMONE is below the fixed-point unit.
MAX_HALVINGS == 20

ProviderIds == {1, 2}
ModelFamilies == {"a", "b"}
CapabilityFlags == {0, 1}
\* The pheromone amounts callers of TerrainMap::deposit / evaporate pass (f64:
\* of either sign, and larger than the whole range).
PheromoneAmounts == {-50, 50, 2000}
RouterTimes == {0, 70, 3601}

FMax(a, b) == IF a >= b THEN a ELSE b
FMin(a, b) == IF a <= b THEN a ELSE b

\* TerrainCoord::new: the first eight bytes of the family's hash (taken as
\* collision-free) and the capability flags.
TerrainCoordNew(model_family, capabilities) ==
    [model_family |-> model_family, capabilities |-> capabilities]
TerrainCoords == {TerrainCoordNew(f, c) : f \in ModelFamilies \cup {"unknown"}, c \in CapabilityFlags}
\* The coordinates the terrain map is exercised on by itself.
TrailCoords == {TerrainCoordNew("a", c) : c \in CapabilityFlags}
TerrainEdge(coord, provider_id) == [coord |-> coord, provider_id |-> provider_id]

\* strength * exp(-PHEROMONE_DECAY_RATE * elapsed), then .max(MIN_PHEROMONE).
Decayed(strength, elapsed) ==
    FMax(strength \div (2 ^ FMin(elapsed \div HALF_LIFE, MAX_HALVINGS)), MIN_PHEROMONE)

DefaultTrail(t) == [strength |-> MIN_PHEROMONE, last_update |-> t, successes |-> 0, failures |-> 0]

TrailDecay(trail, t) ==
    [trail EXCEPT !.strength = Decayed(trail.strength, t - trail.last_update),
                  !.last_update = t]

TrailDeposit(trail, amount, t) ==
    LET dt == TrailDecay(trail, t)
    IN  [dt EXCEPT !.strength = FMin(dt.strength + amount, MAX_PHEROMONE),
                   !.successes = dt.successes + 1]

TrailEvaporate(trail, amount, t) ==
    LET dt == TrailDecay(trail, t)
    IN  [dt EXCEPT !.strength = FMax(dt.strength - amount, MIN_PHEROMONE),
                   !.failures = dt.failures + 1]

MapGetOr(m, k, dflt) == IF k \in DOMAIN m THEN m[k] ELSE dflt
\* HashMap::remove / retain: the map without the keys, and Vec::retain(|p| p != x).
MapWithout(m, keys) == [k \in DOMAIN m \ keys |-> m[k]]
SeqWithout(sq, x) == LET Keep(p) == p # x IN SelectSeq(sq, Keep)

\* TerrainMap::register_provider: push onto the coordinate's list, and a default
\* trail unless the edge has one.
TerrainRegisterOut(pa, tr, coord, provider_id, t) ==
    [providers_at |-> MapPut(pa, coord, Append(MapGetOr(pa, coord, <<>>), provider_id)),
     trails |-> LET edge == TerrainEdge(coord, provider_id)
                IN  IF edge \in DOMAIN tr THEN tr ELSE MapPut(tr, edge, DefaultTrail(t))]

\* TerrainMap::remove_provider.
TerrainRemoveOut(pa, tr, provider_id) ==
    [providers_at |-> [c \in DOMAIN pa |-> SeqWithout(pa[c], provider_id)],
     trails |-> MapWithout(tr, {edge \in DOMAIN tr : edge.provider_id = provider_id})]

\* TerrainMap::pheromone_strength.
PheromoneStrength(tr, coord, provider_id, t) ==
    LET edge == TerrainEdge(coord, provider_id)
    IN  IF edge \in DOMAIN tr
        THEN Decayed(tr[edge].strength, t - tr[edge].last_update)
        ELSE MIN_PHEROMONE

\* TerrainMap::deposit: entry(edge).or_insert_with(default).deposit(amount).
TerrainDepositOut(tr, coord, provider_id, amount, t) ==
    LET edge == TerrainEdge(coord, provider_id)
    IN  MapPut(tr, edge, TrailDeposit(MapGetOr(tr, edge, DefaultTrail(t)), amount, t))

\* TerrainMap::evaporate: only a trail that exists.
TerrainEvaporateOut(tr, coord, provider_id, amount, t) ==
    LET edge == TerrainEdge(coord, provider_id)
    IN  IF edge \in DOMAIN tr THEN MapPut(tr, edge, TrailEvaporate(tr[edge], amount, t)) ELSE tr

\* TerrainMap::global_decay, on the trails.
GlobalDecayOut(tr, t) == [e \in DOMAIN tr |-> TrailDecay(tr[e], t)]

\* Number of deposit and evaporate calls the trails have taken, and of ids listed.
TrailUpdates == SumOver([e \in DOMAIN trails |-> trails[e].successes + trails[e].failures],
                        DOMAIN trails)
ListedCount == SumOver([c \in DOMAIN providers_at |-> Len(providers_at[c])], DOMAIN providers_at)

\* The registry and the Router around the terrain map.
registryVars == <<providers, by_model, last_update, routerCall, router_calls>>
outsideRouterData == <<logVars, callVars, syncVars, memberVars, onionVars, netVars, frameVars,
                       tableVars, serviceVars>>
outsideRouter == <<outsideRouterData, routerThreadVars>>

TerrainRegisterProvider(coord, provider_id) ==
    /\ ListedCount < MaxListed
    /\ LET out == TerrainRegisterOut(providers_at, trails, coord, provider_id, now)
       IN  /\ providers_at' = out.providers_at
           /\ trails' = out.trails
    /\ UNCHANGED <<last_decay, now, registryVars, outsideRouter>>

TerrainRemoveProvider(provider_id) ==
    /\ LET out == TerrainRemoveOut(providers_at, trails, provider_id)
       IN  /\ providers_at' = out.providers_at
           /\ trails' = out.trails
    /\ UNCHANGED <<last_decay, now, registryVars, outsideRouter>>

TerrainDeposit(coord, provider_id, amount) ==
    /\ TrailUpdates < MaxTrailUpdates
    /\ trails' = TerrainDepositOut(trails, coord, provider_id, amount, now)
    /\ UNCHANGED <<providers_at, last_decay, now, registryVars, outsideRouter>>

TerrainEvaporate(coord, provider_id, amount) ==
    /\ TrailUpdates < MaxTrailUpdates
    /\ trails' = TerrainEvaporateOut(trails, coord, provider_id, amount, now)
    /\ UNCHANGED <<providers_at, last_decay, now, registryVars, outsideRouter>>

GlobalDecay ==
    /\ trails' = GlobalDecayOut(trails, now)
    /\ last_decay' = now
    /\ UNCHANGED <<providers_at, now, registryVars, outsideRouter>>

\* Time passes.
RouterTick(t) ==
    /\ t > now
    /\ now' = t
    /\ UNCHANGED <<routerVars, outsideRouter>>

NextTerrain ==
    \/ \E c \in TrailCoords, p \in ProviderIds : TerrainRegisterProvider(c, p)
    \/ \E p \in ProviderIds : TerrainRemoveProvider(p)
    \/ \E c \in TrailCoords, p \in ProviderIds, a \in PheromoneAmounts : TerrainDeposit(c, p, a)
    \/ \E c \in TrailCoords, p \in ProviderIds, a \in PheromoneAmounts : TerrainEvaporate(c, p, a)
    \/ GlobalDecay
    \/ \E t \in RouterTimes : RouterTick(t)

SpecTerrain == Init /\ [][NextTerrain]_vars

\* C13: every trail's strength stays within MIN_PHEROMONE .. MAX_PHEROMONE after
\* any sequence of deposit, evaporate, decay and global_decay calls, whatever the
\* amounts and the time elapsed between the calls.
C13_PheromoneBounds ==
    \A e \in DOMAIN trails :
        MIN_PHEROMONE <= trails[e].strength /\ trails[e].strength <= MAX_PHEROMONE

\* C39: the terrain's two maps agree: a trail exists for (coord, provider)
\* exactly when the provider is listed in providers_at(coord), and no provider
\* is listed twice at one coordinate.
ProvidersAt(coord) == MapGetOr(providers_at, coord, <<>>)
TimesListed(coord, provider_id) ==
    Cardinality({i \in DOMAIN ProvidersAt(coord) : ProvidersAt(coord)[i] = provider_id})

C39_TerrainMapsConsistent ==
    \A coord \in TrailCoords : \A p \in ProviderIds :
        /\ TimesListed(coord, p) <= 1
        /\ TerrainEdge(coord, p) \in DOMAIN trails <=> TimesListed(coord, p) >= 1

\* ---------------------------------------------------------------------------
\* routerd: the provider registry, the scorer and the Router
\* (crates/routerd/src/provider.rs, scoring.rs, router.rs)
\*
\* Reputations are f64 in 0.0 .. 1.0 in the code; here they are hundredths.
\* Latencies are whole milliseconds.  Score components are thousandths and a
\* score is in millionths, so that the weighted sum is exact.
\* ---------------------------------------------------------------------------
REPUTATION_FULL == 100
SUCCESS_BOOST == 1
FAILURE_PENALTY == 5
UNREACHABLE_PENALTY == 10
\* Config.min_reputation (0.5 by default), set to 0.95 here so that one failure
\* report takes a provider below it.
MinReputation == 95
STALE_AFTER == 3600
FAILURE_EVAPORATION == 50
MAX_DEPOSIT == 100
MAX_ALTERNATIVES == 3
\* ScoringWeights::default, and Config.fah_alpha, in thousandths.
W_PHEROMONE == 300
W_REPUTATION == 250
W_SUCCESS_RATE == 200
W_LATENCY == 150
W_EXPLORATION == 100
FAH_ALPHA == 800
COMPONENT_ONE == 1000
NEUTRAL_LATENCY == 500

\* get_model_family of a FAH descriptor.
\* The times at which the Router is called: at once, and after the staleness budget.
StaleTimes == {3601}
NoFamily == "none"
\* The descriptors callers register: an id and the base model of its manifest.
DescriptorFamilies == ModelFamilies
LatenciesMs == {100, 2000}
\* Option<u64> as a sequence of at most one element.
MaxLatencies == {<<>>, <<500>>}
\* RouteRequest.exclude, as a set.
Exclusions == {{}, {1}}
RouteRequests ==
    [model_family : ModelFamilies, capabilities : CapabilityFlags,
     max_latency_ms : MaxLatencies, exclude : Exclusions]

NewProviderState(model_family, t) ==
    [model_family |-> model_family, reputation |-> REPUTATION_FULL, last_seen |-> t,
     successes |-> 0, failures |-> 0, avg_latency_ms |-> 0, reachable |-> TRUE]

\* ProviderState::record_success; the moving average 0.9 * avg + 0.1 * latency.
RecordSuccess(st, latency_ms, t) ==
    [st EXCEPT !.successes = st.successes + 1,
               !.last_seen = t,
               !.reachable = TRUE,
               !.avg_latency_ms = IF st.avg_latency_ms = 0 THEN latency_ms
                                  ELSE (9 * st.avg_latency_ms + latency_ms) \div 10,
               !.reputation = FMin(st.reputation + SUCCESS_BOOST, REPUTATION_FULL)]

RecordFailure(st) ==
    [st EXCEPT !.failures = st.failures + 1,
               !.reputation = FMax(st.reputation - FAILURE_PENALTY, 0)]

MarkUnreachable(st) ==
    [st EXCEPT !.reachable = FALSE,
               !.reputation = FMax(st.reputation - UNREACHABLE_PENALTY, 0)]

SuccessRate(st) ==
    IF st.successes + st.failures = 0 THEN COMPONENT_ONE
    ELSE (COMPONENT_ONE * st.successes) \div (st.successes + st.failures)

IsStale(st, max_age, t) == t - st.last_seen > max_age

\* ProviderRegistry::register.  An id already known keeps its place in the
\* by_model index; only a new id is pushed onto its family's list.
RegistryRegisterOut(pr, bm, id, model, t) ==
    IF id \in DOMAIN pr
    THEN [providers |-> MapPut(pr, id, [pr[id] EXCEPT !.model_family = model,
                                                      !.last_seen = t,
                                                      !.reachable = TRUE]),
          by_model |-> bm]
    ELSE [providers |-> MapPut(pr, id, NewProviderState(model, t)),
          by_model |-> IF model # NoFamily
                       THEN MapPut(bm, model, Append(MapGetOr(bm, model, <<>>), id))
                       ELSE bm]

\* ProviderRegistry::remove.
RegistryRemoveOut(pr, bm, id) ==
    IF id \in DOMAIN pr
    THEN [providers |-> MapWithout(pr, {id}),
          by_model |-> LET mf == pr[id].model_family
                       IN  IF mf # NoFamily /\ mf \in DOMAIN bm
                           THEN MapPut(bm, mf, SeqWithout(bm[mf], id))
                           ELSE bm]
    ELSE [providers |-> pr, by_model |-> bm]

\* ProviderRegistry::by_model: the ids listed under the family, in list order,
\* that are registered, reputable and reachable.
ByModel(pr, bm, model_family) ==
    LET Known(id) == id \in DOMAIN pr
        Usable(id) == pr[id].reputation >= MinReputation /\ pr[id].reachable
    IN  IF model_family \in DOMAIN bm
        THEN SelectSeq(SelectSeq(bm[model_family], Known), Usable)
        ELSE <<>>

\* ProviderRegistry::prune_stale: collect the stale ids, then remove each.
StaleIds(pr, max_age, t) == {id \in DOMAIN pr : IsStale(pr[id], max_age, t)}

RECURSIVE RemoveAll(_, _, _)
RemoveAll(pr, bm, ids) ==
    IF ids = {} THEN [providers |-> pr, by_model |-> bm]
    ELSE LET id == CHOOSE x \in ids : TRUE
             out == RegistryRemoveOut(pr, bm, id)
         IN  RemoveAll(out.providers, out.by_model, ids \ {id})

PruneStaleOut(pr, bm, max_age, t) == RemoveAll(pr, bm, StaleIds(pr, max_age, t))

\* Scorer::score.
Score(st, id, coord, tr, t) ==
    LET pheromone == FMin(PheromoneStrength(tr, coord, id, t), COMPONENT_ONE)
        reputation == st.reputation * (COMPONENT_ONE \div REPUTATION_FULL)
        success_rate == SuccessRate(st)
        latency == IF st.avg_latency_ms > 0
                   THEN FMin((COMPONENT_ONE * COMPONENT_ONE) \div st.avg_latency_ms, COMPONENT_ONE)
                   ELSE NEUTRAL_LATENCY
        total_usage == st.successes + st.failures
        exploration == IF total_usage < 10 THEN COMPONENT_ONE
                       ELSE IF total_usage < 100 THEN COMPONENT_ONE \div 2
                       ELSE COMPONENT_ONE \div 10
    IN  [id |-> id,
         score |-> W_PHEROMONE * pheromone + W_REPUTATION * reputation
                   + W_SUCCESS_RATE * success_rate + W_LATENCY * latency
                   + (W_EXPLORATION * exploration * (COMPONENT_ONE - FAH_ALPHA)) \div COMPONENT_ONE,
         pheromone |-> pheromone]

\* slice::sort_by on score descending is a stable sort: an element goes behind
\* every element whose score is not smaller.
RECURSIVE InsertByScore(_, _)
InsertByScore(sorted, x) ==
    IF sorted = <<>> THEN <<x>>
    ELSE IF Head(sorted).score >= x.score
         THEN <<Head(sorted)>> \o InsertByScore(Tail(sorted), x)
         ELSE <<x>> \o sorted

RECURSIVE SortByScore(_, _)
SortByScore(sorted, rest) ==
    IF rest = <<>> THEN sorted
    ELSE SortByScore(InsertByScore(sorted, Head(rest)), Tail(rest))

\* Scorer::rank.
Rank(pr, ids, coord, tr, t) ==
    SortByScore(<<>>, [i \in 1..Len(ids) |-> Score(pr[ids[i]], ids[i], coord, tr, t)])

\* The candidates of Router::route after its filters, as provider ids.
RouteCandidates(pr, bm, request) ==
    LET NotExcluded(id) == id \notin request.exclude
        FastEnough(id) ==
            request.max_latency_ms = <<>>
            \/ pr[id].avg_latency_ms = 0
            \/ pr[id].avg_latency_ms <= request.max_latency_ms[1]
    IN  SelectSeq(SelectSeq(ByModel(pr, bm, request.model_family), NotExcluded), FastEnough)

\* Router::route.
RouteOut(pr, bm, tr, request, t) ==
    LET coord == TerrainCoordNew(request.model_family, request.capabilities)
        cands == RouteCandidates(pr, bm, request)
        ranked == Rank(pr, cands, coord, tr, t)
    IN  IF cands = <<>>
        THEN [op |-> "route", res |-> "NoProviders", request |-> request,
              ranked |-> <<>>, pruned |-> {}]
        ELSE [op |-> "route", res |-> "Ok", request |-> request,
              ranked |-> SubSeq(ranked, 1, FMin(Len(ranked), 1 + MAX_ALTERNATIVES)),
              pruned |-> {}]

\* (1000.0 / latency_ms.max(1.0)).min(10.0), in tenths.
DepositAmount(latency_ms) == FMin((1000 * 10) \div FMax(latency_ms, 1), MAX_DEPOSIT)

\* routerCall keeps what route and maintenance returned until the next call.
OtherCall == [NoRouterCall EXCEPT !.op = "other"]

\* Router::register_provider.
RegisterProvider(id, model) ==
    /\ router_calls < MaxRouterCalls
    /\ LET reg == RegistryRegisterOut(providers, by_model, id, model, now)
           coord == TerrainCoordNew(IF model = NoFamily THEN "unknown" ELSE model, 0)
           ter == TerrainRegisterOut(providers_at, trails, coord, id, now)
       IN  /\ providers' = reg.providers
           /\ by_model' = reg.by_model
           /\ providers_at' = ter.providers_at
           /\ trails' = ter.trails
    /\ routerCall' = OtherCall
    /\ router_calls' = router_calls + 1
    /\ UNCHANGED <<last_decay, last_update, now, outsideRouter>>

\* Router::remove_provider.
RemoveProvider(id) ==
    /\ router_calls < MaxRouterCalls
    /\ LET reg == RegistryRemoveOut(providers, by_model, id)
           ter == TerrainRemoveOut(providers_at, trails, id)
       IN  /\ providers' = reg.providers
           /\ by_model' = reg.by_model
           /\ providers_at' = ter.providers_at
           /\ trails' = ter.trails
    /\ routerCall' = OtherCall
    /\ router_calls' = router_calls + 1
    /\ UNCHANGED <<last_decay, last_update, now, outsideRouter>>

Route(request) ==
    /\ routerCall' = RouteOut(providers, by_model, trails, request, now)
    /\ UNCHANGED <<trails, providers_at, last_decay, providers, by_model, last_update,
                   router_calls, now, outsideRouter>>

\* Router::report_success.
ReportSuccess(id, model_family, latency_ms) ==
    /\ router_calls < MaxRouterCalls
    /\ providers' = IF id \in DOMAIN providers
                    THEN MapPut(providers, id, RecordSuccess(providers[id], latency_ms, now))
                    ELSE providers
    /\ trails' = TerrainDepositOut(trails, TerrainCoordNew(model_family, 0), id,
                                   DepositAmount(latency_ms), now)
    /\ routerCall' = OtherCall
    /\ router_calls' = router_calls + 1
    /\ UNCHANGED <<providers_at, last_decay, by_model, last_update, now, outsideRouter>>

\* Router::report_failure.
ReportFailure(id, model_family) ==
    /\ router_calls < MaxRouterCalls
    /\ providers' = IF id \in DOMAIN providers
                    THEN MapPut(providers, id, RecordFailure(providers[id]))
                    ELSE providers
    /\ trails' = TerrainEvaporateOut(trails, TerrainCoordNew(model_family, 0), id,
                                     FAILURE_EVAPORATION, now)
    /\ routerCall' = OtherCall
    /\ router_calls' = router_calls + 1
    /\ UNCHANGED <<providers_at, last_decay, by_model, last_update, now, outsideRouter>>

\* Router::report_unreachable.
ReportUnreachable(id) ==
    /\ router_calls < MaxRouterCalls
    /\ providers' = IF id \in DOMAIN providers
                    THEN MapPut(providers, id, MarkUnreachable(providers[id]))
                    ELSE providers
    /\ routerCall' = OtherCall
    /\ router_calls' = router_calls + 1
    /\ UNCHANGED <<trails, providers_at, last_decay, by_model, last_update, now,
                   outsideRouter>>

\* Router::maintenance: global_decay, prune_stale on the registry, last_update.
Maintenance ==
    /\ router_calls < MaxRouterCalls
    /\ trails' = GlobalDecayOut(trails, now)
    /\ last_decay' = now
    /\ LET out == PruneStaleOut(providers, by_model, STALE_AFTER, now)
       IN  /\ providers' = out.providers
           /\ by_model' = out.by_model
    /\ last_update' = now
    /\ routerCall' = [NoRouterCall EXCEPT !.op = "maintenance",
                                           !.pruned = StaleIds(providers, STALE_AFTER, now)]
    /\ router_calls' = router_calls + 1
    /\ UNCHANGED <<providers_at, now, outsideRouter>>

NextRouter ==
    \/ \E id \in ProviderIds, m \in DescriptorFamilies : RegisterProvider(id, m)
    \/ \E id \in ProviderIds : RemoveProvider(id)
    \/ \E r \in RouteRequests : Route(r)
    \/ \E id \in ProviderIds, m \in ModelFamilies, l \in LatenciesMs : ReportSuccess(id, m, l)
    \/ \E id \in ProviderIds, m \in ModelFamilies : ReportFailure(id, m)
    \/ \E id \in ProviderIds : ReportUnreachable(id)
    \/ Maintenance
    \/ \E t \in StaleTimes : RouterTick(t)

SpecRouter == Init /\ [][NextRouter]_vars

\* The ids of a list of scored providers.
RankedIds(ranked) == {ranked[i].id : i \in 1..Len(ranked)}

\* C15: route returns, as the selected provider or as an alternative, only
\* providers that are not excluded, are reachable, have reputation at least
\* min_reputation, belong to the requested model family and are not known to be
\* slower than max_latency_ms; at most three alternatives, none of them the
\* selected provider; and NoProviders exactly when no provider passes.
Eligible(id, request) ==
    /\ id \in DOMAIN providers
    /\ id \notin request.exclude
    /\ providers[id].reachable
    /\ providers[id].reputation >= MinReputation
    /\ providers[id].model_family = request.model_family
    /\ \/ request.max_latency_ms = <<>>
       \/ providers[id].avg_latency_ms = 0
       \/ providers[id].avg_latency_ms <= request.max_latency_ms[1]

C15_RouteRespectsFilters ==
    routerCall.op = "route" =>
        /\ routerCall.res = "Ok" =>
              /\ \A id \in RankedIds(routerCall.ranked) : Eligible(id, routerCall.request)
              /\ Len(routerCall.ranked) <= 1 + MAX_ALTERNATIVES
              /\ \A i \in 2..Len(routerCall.ranked) :
                     routerCall.ranked[i].id # routerCall.ranked[1].id
        /\ (routerCall.res = "NoProviders") <=>
               (\A id \in ProviderIds : ~Eligible(id, routerCall.request))

\* C16: the ranking route obtains from Scorer::rank is sorted by score
\* descending, and providers with equal scores appear in provider-id order.
C16_RankDeterministic ==
    (routerCall.op = "route" /\ routerCall.res = "Ok") =>
        \A i \in 1..Len(routerCall.ranked) - 1 :
            \/ routerCall.ranked[i].score > routerCall.ranked[i + 1].score
            \/ /\ routerCall.ranked[i].score = routerCall.ranked[i + 1].score
               /\ routerCall.ranked[i].id < routerCall.ranked[i + 1].id

\* C17: a route request for family f, whatever its capability flags, scores a
\* provider from the trail that report_success / report_failure for (p, f)
\* updated: the pheromone component is the strength of that trail.
FeedbackTrail(id, model_family) == TerrainEdge(TerrainCoordNew(model_family, 0), id)

C17_FeedbackVisible ==
    (routerCall.op = "route" /\ routerCall.res = "Ok") =>
        \A i \in 1..Len(routerCall.ranked) :
            LET id == routerCall.ranked[i].id
                edge == FeedbackTrail(id, routerCall.request.model_family)
            IN  (edge \in DOMAIN trails /\ trails[edge].successes + trails[edge].failures > 0) =>
                    routerCall.ranked[i].pheromone =
                        FMin(Decayed(trails[edge].strength, now - trails[edge].last_update),
                             COMPONENT_ONE)

\* C18: after maintenance every provider that was stale is gone from the
\* registry, from the model-family index and from the terrain's coordinate
\* index, and has no trail; the others keep theirs.
InIndex(index, id) == \E k \in DOMAIN index : \E i \in 1..Len(index[k]) : index[k][i] = id

C18_MaintenancePrunesEverywhere ==
    routerCall.op = "maintenance" =>
        \A id \in routerCall.pruned :
            /\ id \notin DOMAIN providers
            /\ ~InIndex(by_model, id)
            /\ ~InIndex(providers_at, id)
            /\ \A e \in DOMAIN trails : e.provider_id # id

\* ---------------------------------------------------------------------------
\* routerd: several tasks calling one Router.  Every RwLock acquisition is a
\* step; a guard that lives across the next acquisition is held between steps.
\* ---------------------------------------------------------------------------
RouterThreads == 1..MaxThreads
RegistryLocks == {"providers", "by_model"}
TerrainLocks == {"trails", "providers_at"}

\* The calls the tasks make.
ConcRequests ==
    {[model_family |-> f, capabilities |-> 0, max_latency_ms |-> <<>>, exclude |-> {}] :
        f \in ModelFamilies}
RouterCallInputs ==
    {[IdleRouterThread EXCEPT !.op = "register_provider", !.pc = "reg_providers",
                              !.id = id, !.model = m] :
        id \in ProviderIds, m \in DescriptorFamilies}
    \cup {[IdleRouterThread EXCEPT !.op = "remove_provider", !.pc = "rm_providers", !.id = id] :
        id \in ProviderIds}
    \cup {[IdleRouterThread EXCEPT !.op = "route", !.pc = "bm_by_model", !.request = r] :
        r \in ConcRequests}
    \cup {[IdleRouterThread EXCEPT !.op = "report_success", !.pc = "record", !.id = id,
                                   !.model = m, !.latency_ms = 100] :
        id \in ProviderIds, m \in ModelFamilies}
    \cup {[IdleRouterThread EXCEPT !.op = "report_failure", !.pc = "record", !.id = id,
                                   !.model = m] :
        id \in ProviderIds, m \in ModelFamilies}
    \cup {[IdleRouterThread EXCEPT !.op = "maintenance", !.pc = "gd_trails"],
          [IdleRouterThread EXCEPT !.op = "stats", !.pc = "st_trails"]}

\* The lock a task acquires at each position, and how.
WantsOf(pc) ==
    CASE pc = "reg_providers"    -> <<"providers", "write">>
      [] pc = "reg_by_model"     -> <<"by_model", "write">>
      [] pc = "ter_providers_at" -> <<"providers_at", "write">>
      [] pc = "ter_trails"       -> <<"trails", "write">>
      [] pc = "rm_providers"     -> <<"providers", "write">>
      [] pc = "rm_by_model"      -> <<"by_model", "write">>
      [] pc = "trm_providers_at" -> <<"providers_at", "write">>
      [] pc = "trm_trails"       -> <<"trails", "write">>
      [] pc = "bm_by_model"      -> <<"by_model", "read">>
      [] pc = "bm_providers"     -> <<"providers", "read">>
      [] pc = "score"            -> <<"trails", "read">>
      [] pc = "record"           -> <<"providers", "write">>
      [] pc = "feedback"         -> <<"trails", "write">>
      [] pc = "gd_trails"        -> <<"trails", "write">>
      [] pc = "gd_last_decay"    -> <<"last_decay", "write">>
      [] pc = "prune_collect"    -> <<"providers", "read">>
      [] pc = "last_update"      -> <<"last_update", "write">>
      [] pc = "st_trails"        -> <<"trails", "read">>
      [] pc = "st_providers_at"  -> <<"providers_at", "read">>
      [] pc = "st_registry"      -> <<"providers", "read">>

\* RwLock: a writer excludes everyone, a reader excludes writers.
Conflicts(want, t) ==
    {u \in RouterThreads \ {t} :
        \E h \in rthr[u].held : h[1] = want[1] /\ (want[2] = "write" \/ h[2] = "write")}
Available(want, t) == Conflicts(want, t) = {}
At(t, pc) == rthr[t].pc = pc /\ Available(WantsOf(pc), t)

\* A task enters a Router call.
ConcCall(t, call) ==
    /\ rthr[t].pc = "idle"
    /\ router_calls < MaxRouterCalls
    /\ rthr' = [rthr EXCEPT ![t] = call]
    /\ router_calls' = router_calls + 1
    /\ UNCHANGED <<trails, providers_at, last_decay, providers, by_model, last_update,
                   routerCall, now, outsideRouterData>>

\* ProviderRegistry::register: providers.write(); a new id with a model family
\* goes on to by_model.write() with the providers guard still held.
ConcRegistryRegister(t) ==
    /\ At(t, "reg_providers")
    /\ LET me == rthr[t]
           isNew == me.id \notin DOMAIN providers
       IN  /\ providers' = RegistryRegisterOut(providers, by_model, me.id, me.model, now).providers
           /\ rthr' = [rthr EXCEPT ![t] =
                  IF isNew /\ me.model # NoFamily
                  THEN [me EXCEPT !.pc = "reg_by_model", !.held = {<<"providers", "write">>}]
                  ELSE [me EXCEPT !.pc = "ter_providers_at"]]
    /\ UNCHANGED <<trails, providers_at, last_decay, by_model, last_update, routerCall,
                   router_calls, now, outsideRouterData>>

ConcRegistryIndex(t) ==
    /\ At(t, "reg_by_model")
    /\ LET me == rthr[t]
       IN  /\ by_model' = MapPut(by_model, me.model,
                                 Append(MapGetOr(by_model, me.model, <<>>), me.id))
           /\ rthr' = [rthr EXCEPT ![t] = [me EXCEPT !.pc = "ter_providers_at", !.held = {}]]
    /\ UNCHANGED <<trails, providers_at, last_decay, providers, last_update, routerCall,
                   router_calls, now, outsideRouterData>>

\* TerrainMap::register_provider: providers_at.write(), then trails.write()
\* with the providers_at guard still held.
ConcTerrainList(t) ==
    /\ At(t, "ter_providers_at")
    /\ LET me == rthr[t]
           coord == TerrainCoordNew(IF me.model = NoFamily THEN "unknown" ELSE me.model, 0)
       IN  /\ providers_at' = TerrainRegisterOut(providers_at, trails, coord, me.id, now).providers_at
           /\ rthr' = [rthr EXCEPT ![t] =
                  [me EXCEPT !.pc = "ter_trails", !.held = {<<"providers_at", "write">>}]]
    /\ UNCHANGED <<trails, last_decay, providers, by_model, last_update, routerCall,
                   router_calls, now, outsideRouterData>>

ConcTerrainTrail(t) ==
    /\ At(t, "ter_trails")
    /\ LET me == rthr[t]
           coord == TerrainCoordNew(IF me.model = NoFamily THEN "unknown" ELSE me.model, 0)
       IN  trails' = TerrainRegisterOut(providers_at, trails, coord, me.id, now).trails
    /\ rthr' = [rthr EXCEPT ![t] = IdleRouterThread]
    /\ UNCHANGED <<providers_at, last_decay, providers, by_model, last_update, routerCall,
                   router_calls, now, outsideRouterData>>

\* What follows a ProviderRegistry::remove: the terrain for remove_provider,
\* the next stale id or the last_update stamp for maintenance.
AfterRemove(me) ==
    IF me.op = "remove_provider" THEN [me EXCEPT !.pc = "trm_providers_at", !.held = {}]
    ELSE IF me.todo # {} THEN [me EXCEPT !.pc = "rm_providers", !.held = {}]
    ELSE [me EXCEPT !.pc = "last_update", !.held = {}]

\* ProviderRegistry::remove: providers.write().remove(id); when the id was
\* there, by_model.write() with the providers guard still held.
ConcRegistryRemove(t) ==
    /\ At(t, "rm_providers")
    /\ LET me == rthr[t]
       IN  \E id \in (IF me.op = "remove_provider" THEN {me.id} ELSE me.todo) :
             LET mine == [me EXCEPT !.id = id, !.todo = me.todo \ {id}]
             IN  /\ providers' = MapWithout(providers, {id})
                 /\ rthr' = [rthr EXCEPT ![t] =
                        IF id \in DOMAIN providers
                        THEN [mine EXCEPT !.pc = "rm_by_model",
                                          !.held = {<<"providers", "write">>},
                                          !.state_family = providers[id].model_family]
                        ELSE AfterRemove(mine)]
    /\ UNCHANGED <<trails, providers_at, last_decay, by_model, last_update, routerCall,
                   router_calls, now, outsideRouterData>>

ConcRegistryUnindex(t) ==
    /\ At(t, "rm_by_model")
    /\ LET me == rthr[t]
           mf == me.state_family
       IN  /\ by_model' = IF mf # NoFamily /\ mf \in DOMAIN by_model
                          THEN MapPut(by_model, mf, SeqWithout(by_model[mf], me.id))
                          ELSE by_model
           /\ rthr' = [rthr EXCEPT ![t] = AfterRemove(me)]
    /\ UNCHANGED <<trails, providers_at, last_decay, providers, last_update, routerCall,
                   router_calls, now, outsideRouterData>>

\* TerrainMap::remove_provider: providers_at.write(), then trails.write() with
\* the providers_at guard still held.
ConcTerrainUnlist(t) ==
    /\ At(t, "trm_providers_at")
    /\ LET me == rthr[t]
       IN  /\ providers_at' = TerrainRemoveOut(providers_at, trails, me.id).providers_at
           /\ rthr' = [rthr EXCEPT ![t] =
                  [me EXCEPT !.pc = "trm_trails", !.held = {<<"providers_at", "write">>}]]
    /\ UNCHANGED <<trails, last_decay, providers, by_model, last_update, routerCall,
                   router_calls, now, outsideRouterData>>

ConcTerrainUntrail(t) ==
    /\ At(t, "trm_trails")
    /\ trails' = TerrainRemoveOut(providers_at, trails, rthr[t].id).trails
    /\ rthr' = [rthr EXCEPT ![t] = IdleRouterThread]
    /\ UNCHANGED <<providers_at, last_decay, providers, by_model, last_update, routerCall,
                   router_calls, now, outsideRouterData>>

\* ProviderRegistry::by_model: by_model.read(), then providers.read() with the
\* by_model guard still held; route then filters its copy of the states.
ConcByModelIndex(t) ==
    /\ At(t, "bm_by_model")
    /\ rthr' = [rthr EXCEPT ![t] =
           [rthr[t] EXCEPT !.pc = "bm_providers", !.held = {<<"by_model", "read">>}]]
    /\ UNCHANGED <<routerVars, now, outsideRouterData>>

ConcByModelStates(t) ==
    /\ At(t, "bm_providers")
    /\ LET me == rthr[t]
           ids == RouteCandidates(providers, by_model, me.request)
           cands == [i \in 1..Len(ids) |-> [id |-> ids[i], state |-> providers[ids[i]]]]
       IN  rthr' = [rthr EXCEPT ![t] =
               IF cands = <<>> THEN IdleRouterThread
               ELSE [me EXCEPT !.pc = "score", !.held = {}, !.cands = cands]]
    /\ UNCHANGED <<routerVars, now, outsideRouterData>>

\* Scorer::rank: one trails.read() per candidate (pheromone_strength), then
\* the sort; route returns.
ConcScore(t) ==
    /\ At(t, "score")
    /\ LET me == rthr[t]
           c == me.cands[Len(me.scored) + 1]
           coord == TerrainCoordNew(me.request.model_family, me.request.capabilities)
           scored == Append(me.scored, Score(c.state, c.id, coord, trails, now))
       IN  rthr' = [rthr EXCEPT ![t] =
               IF Len(scored) = Len(me.cands) THEN IdleRouterThread
               ELSE [me EXCEPT !.scored = scored]]
    /\ UNCHANGED <<routerVars, now, outsideRouterData>>

\* ProviderRegistry::record_success / record_failure: providers.write().
ConcRecord(t) ==
    /\ At(t, "record")
    /\ LET me == rthr[t]
       IN  /\ providers' =
                  IF me.id \notin DOMAIN providers THEN providers
                  ELSE IF me.op = "report_success"
                       THEN MapPut(providers, me.id,
                                   RecordSuccess(providers[me.id], me.latency_ms, now))
                       ELSE MapPut(providers, me.id, RecordFailure(providers[me.id]))
           /\ rthr' = [rthr EXCEPT ![t] = [me EXCEPT !.pc = "feedback"]]
    /\ UNCHANGED <<trails, providers_at, last_decay, by_model, last_update, routerCall,
                   router_calls, now, outsideRouterData>>

\* TerrainMap::deposit / evaporate: trails.write().
ConcFeedback(t) ==
    /\ At(t, "feedback")
    /\ LET me == rthr[t]
           coord == TerrainCoordNew(me.model, 0)
       IN  trails' = IF me.op = "report_success"
                     THEN TerrainDepositOut(trails, coord, me.id, DepositAmount(me.latency_ms), now)
                     ELSE TerrainEvaporateOut(trails, coord, me.id, FAILURE_EVAPORATION, now)
    /\ rthr' = [rthr EXCEPT ![t] = IdleRouterThread]
    /\ UNCHANGED <<providers_at, last_decay, providers, by_model, last_update, routerCall,
                   router_calls, now, outsideRouterData>>

\* TerrainMap::global_decay: trails.write(), then last_decay.write() with the
\* trails guard still held.
ConcDecayTrails(t) ==
    /\ At(t, "gd_trails")
    /\ trails' = GlobalDecayOut(trails, now)
    /\ rthr' = [rthr EXCEPT ![t] =
           [rthr[t] EXCEPT !.pc = "gd_last_decay", !.held = {<<"trails", "write">>}]]
    /\ UNCHANGED <<providers_at, last_decay, providers, by_model, last_update, routerCall,
                   router_calls, now, outsideRouterData>>

ConcDecayStamp(t) ==
    /\ At(t, "gd_last_decay")
    /\ last_decay' = now
    /\ rthr' = [rthr EXCEPT ![t] = [rthr[t] EXCEPT !.pc = "prune_collect", !.held = {}]]
    /\ UNCHANGED <<trails, providers_at, providers, by_model, last_update, routerCall,
                   router_calls, now, outsideRouterData>>

\* ProviderRegistry::prune_stale: the stale ids under providers.read().
ConcPruneCollect(t) ==
    /\ At(t, "prune_collect")
    /\ LET removed == StaleIds(providers, STALE_AFTER, now)
       IN  rthr' = [rthr EXCEPT ![t] =
               [rthr[t] EXCEPT !.pc = IF removed = {} THEN "last_update" ELSE "rm_providers",
                               !.todo = removed]]
    /\ UNCHANGED <<routerVars, now, outsideRouterData>>

\* Router::maintenance, its end: *self.last_update.write() = Instant::now().
ConcStampUpdate(t) ==
    /\ At(t, "last_update")
    /\ last_update' = now
    /\ rthr' = [rthr EXCEPT ![t] = IdleRouterThread]
    /\ UNCHANGED <<trails, providers_at, last_decay, providers, by_model, routerCall,
                   router_calls, now, outsideRouterData>>

\* TerrainMap::stats: trails.read(), then providers_at.read() with the trails
\* guard still held; then ProviderRegistry::stats under providers.read().
ConcTerrainStatsTrails(t) ==
    /\ At(t, "st_trails")
    /\ rthr' = [rthr EXCEPT ![t] =
           [rthr[t] EXCEPT !.pc = "st_providers_at", !.held = {<<"trails", "read">>}]]
    /\ UNCHANGED <<routerVars, now, outsideRouterData>>

ConcTerrainStatsProviders(t) ==
    /\ At(t, "st_providers_at")
    /\ rthr' = [rthr EXCEPT ![t] = [rthr[t] EXCEPT !.pc = "st_registry", !.held = {}]]
    /\ UNCHANGED <<routerVars, now, outsideRouterData>>

ConcRegistryStats(t) ==
    /\ At(t, "st_registry")
    /\ rthr' = [rthr EXCEPT ![t] = IdleRouterThread]
    /\ UNCHANGED <<routerVars, now, outsideRouterData>>

ConcTick(t) ==
    /\ t > now
    /\ now' = t
    /\ UNCHANGED <<routerVars, routerThreadVars, outsideRouterData>>

NextRouterConc ==
    \/ \E t \in RouterThreads, call \in RouterCallInputs : ConcCall(t, call)
    \/ \E t \in RouterThreads : ConcRegistryRegister(t)
    \/ \E t \in RouterThreads : ConcRegistryIndex(t)
    \/ \E t \in RouterThreads : ConcTerrainList(t)
    \/ \E t \in RouterThreads : ConcTerrainTrail(t)
    \/ \E t \in RouterThreads : ConcRegistryRemove(t)
    \/ \E t \in RouterThreads : ConcRegistryUnindex(t)
    \/ \E t \in RouterThreads : ConcTerrainUnlist(t)
    \/ \E t \in RouterThreads : ConcTerrainUntrail(t)
    \/ \E t \in RouterThreads : ConcByModelIndex(t)
    \/ \E t \in RouterThreads : ConcByModelStates(t)
    \/ \E t \in RouterThreads : ConcScore(t)
    \/ \E t \in RouterThreads : ConcRecord(t)
    \/ \E t \in RouterThreads : ConcFeedback(t)
    \/ \E t \in RouterThreads : ConcDecayTrails(t)
    \/ \E t \in RouterThreads : ConcDecayStamp(t)
    \/ \E t \in RouterThreads : ConcPruneCollect(t)
    \/ \E t \in RouterThreads : ConcStampUpdate(t)
    \/ \E t \in RouterThreads : ConcTerrainStatsTrails(t)
    \/ \E t \in RouterThreads : ConcTerrainStatsProviders(t)
    \/ \E t \in RouterThreads : ConcRegistryStats(t)
    \/ \E t \in StaleTimes : ConcTick(t)

SpecRouterConc == Init /\ [][NextRouterConc]_vars

\* Tasks that wait for a lock held by a task that itself waits within the set:
\* none of them can ever take its next step.
Blocked(t) == rthr[t].pc # "idle" /\ ~Available(WantsOf(rthr[t].pc), t)
RouterDeadlocked ==
    \E S \in SUBSET RouterThreads :
        /\ S # {}
        /\ \A t \in S : Blocked(t) /\ Conflicts(WantsOf(rthr[t].pc), t) \subseteq S

\* A task that acquires a registry or terrain lock while it holds another one.
NestedAcquisition(t) ==
    /\ rthr[t].pc # "idle"
    /\ WantsOf(rthr[t].pc)[1] \in RegistryLocks \cup TerrainLocks
    /\ \E h \in rthr[t].held : h[1] \in RegistryLocks \cup TerrainLocks

\* C14: the router never deadlocks when route, register_provider,
\* remove_provider, report_success, report_failure, maintenance and stats are
\* called concurrently: every call completes, so no set of tasks ever waits for
\* locks held within the set (the claim's reason being that no call acquires a
\* registry or terrain lock while holding another).
C14_RouterNeverDeadlocks == ~RouterDeadlocked

\* ---------------------------------------------------------------------------
\* infernode: the client's circuit table (crates/infernode/src/circuit.rs)
\* ---------------------------------------------------------------------------
\* CircuitManager.timeout (Config.circuit_timeout_secs), in seconds.
TIMEOUT_SECS == 300
\* The idle time after which create_circuit may evict, and prune drops.
EVICT_IDLE_SECS == 60
PRUNE_IDLE_SECS == 300

CircuitStatuses == {"Building", "Ready", "Failed", "Closing"}
TableTimes == {0, 60, 61, 301}
\* The ids ClientCircuit::new draws at random, taken as never drawn twice.
TableCircuitIds == 1..MaxCreated
TablePaths == {<<1>>}
TablePayloads == {<< <<7>> >>}

\* The hop keys of a path, as the key exchange with each hop gives them.
PathKeys(path) == [i \in 1..Len(path) |-> Derive(PeerIdBytes(path[i]), CircuitSecret, i - 1)]

\* ClientCircuit::new.
NewClientCircuit(id, path, keys, t) ==
    [id |-> id, path |-> path, hop_keys |-> keys, status |-> "Building",
     created_at |-> t, last_used |-> t, request_count |-> 0]

IsExpired(c, max_age, t) == t - c.created_at > max_age
IsIdle(c, idle_timeout, t) == t - c.last_used > idle_timeout

\* ClientCircuit::encrypt_request without its status check.
ClientEncryptAnyStatus(c, payload, t) ==
    [res |-> "Ok",
     circuit |-> [c EXCEPT !.last_used = t, !.request_count = c.request_count + 1],
     cell |-> OnionCellEncrypt(c.id, payload, c.hop_keys)]

\* ClientCircuit::encrypt_request.
ClientEncryptOut(c, payload, t) ==
    IF c.status # "Ready"
    THEN [res |-> "BuildFailed", circuit |-> c, cell |-> NoTableCell]
    ELSE [res |-> "Ok",
          circuit |-> [c EXCEPT !.last_used = t, !.request_count = c.request_count + 1],
          cell |-> OnionCellEncrypt(c.id, payload, c.hop_keys)]

\* CircuitManager::encrypt_request.
ManagerEncryptOut(tbl, id, payload, t) ==
    IF id \notin DOMAIN tbl
    THEN [res |-> "NotFound", circuits |-> tbl, cell |-> NoTableCell]
    ELSE IF IsExpired(tbl[id], TIMEOUT_SECS, t)
    THEN [res |-> "Expired", circuits |-> [tbl EXCEPT ![id].status = "Failed"], cell |-> NoTableCell]
    ELSE LET out == ClientEncryptOut(tbl[id], payload, t)
         IN  [res |-> out.res, circuits |-> [tbl EXCEPT ![id] = out.circuit], cell |-> out.cell]

\* An eviction that takes any idle circuit, whatever its last use.
EvictAnyIdle(tbl, t) == {id \in DOMAIN tbl : IsIdle(tbl[id], EVICT_IDLE_SECS, t)}

\* The circuits create_circuit may evict: filter(is_idle(60 s)).min_by_key(last_used).
\* Among equal last_used the iteration order of the HashMap decides.
EvictChoices(tbl, t) ==
    LET idle == {id \in DOMAIN tbl : IsIdle(tbl[id], EVICT_IDLE_SECS, t)}
    IN  {id \in idle : \A other \in idle : tbl[id].last_used <= tbl[other].last_used}

TableCallOf(op, id, res, c) ==
    [op |-> op, id |-> id, res |-> res, at |-> now, before |-> circuits, cell |-> c]

\* tableCall keeps what create_circuit and encrypt_request did until the next call.
OtherTableCall == [NoTableCall EXCEPT !.op = "other"]

outsideTable == <<logVars, callVars, syncVars, memberVars, onionVars, netVars, frameVars,
                  routerVars, routerThreadVars, serviceVars>>

\* CircuitManager::create_circuit.
CreateCircuit(path) ==
    /\ next_circuit <= MaxCreated
    /\ next_circuit' = next_circuit + 1
    /\ LET id == next_circuit
           circuit == NewClientCircuit(id, path, PathKeys(path), now)
       IN  IF Cardinality(DOMAIN circuits) >= MaxCircuits
           THEN IF EvictChoices(circuits, now) = {}
                THEN /\ circuits' = circuits
                     /\ tableCall' = TableCallOf("create_circuit", id, "NoPath", NoTableCell)
                ELSE \E evict_id \in EvictChoices(circuits, now) :
                       /\ circuits' = MapPut(MapWithout(circuits, {evict_id}), id, circuit)
                       /\ tableCall' = TableCallOf("create_circuit", id, "Ok", NoTableCell)
           ELSE /\ circuits' = MapPut(circuits, id, circuit)
                /\ tableCall' = TableCallOf("create_circuit", id, "Ok", NoTableCell)
    /\ UNCHANGED <<now, outsideTable>>

\* CircuitManager::mark_ready.
ManagerMarkReady(id) ==
    /\ circuits' = IF id \in DOMAIN circuits
                   THEN [circuits EXCEPT ![id].status = "Ready"]
                   ELSE circuits
    /\ tableCall' = OtherTableCall
    /\ UNCHANGED <<next_circuit, now, outsideTable>>

ManagerEncryptRequest(id, payload) ==
    /\ ManagerEncryptOut(circuits, id, payload, now).res = "Ok" =>
           circuits[id].request_count < MaxTableRequests
    /\ LET out == ManagerEncryptOut(circuits, id, payload, now)
       IN  /\ circuits' = out.circuits
           /\ tableCall' = TableCallOf("encrypt_request", id, out.res, out.cell)
    /\ UNCHANGED <<next_circuit, now, outsideTable>>

\* CircuitManager::close_circuit.
CloseCircuit(id) ==
    /\ circuits' = MapWithout(circuits, {id})
    /\ tableCall' = OtherTableCall
    /\ UNCHANGED <<next_circuit, now, outsideTable>>

\* CircuitManager::prune.
Prune ==
    /\ circuits' = MapWithout(circuits,
                              {k \in DOMAIN circuits :
                                  \/ IsExpired(circuits[k], TIMEOUT_SECS, now)
                                  \/ IsIdle(circuits[k], PRUNE_IDLE_SECS, now)})
    /\ tableCall' = OtherTableCall
    /\ UNCHANGED <<next_circuit, now, outsideTable>>

TableTick(t) ==
    /\ t > now
    /\ now' = t
    /\ UNCHANGED <<tableVars, outsideTable>>

NextTable ==
    \/ \E path \in TablePaths : CreateCircuit(path)
    \/ \E id \in TableCircuitIds : ManagerMarkReady(id)
    \/ \E id \in TableCircuitIds, payload \in TablePayloads : ManagerEncryptRequest(id, payload)
    \/ \E id \in TableCircuitIds : CloseCircuit(id)
    \/ Prune
    \/ \E t \in TableTimes : TableTick(t)

SpecTable == Init /\ [][NextTable]_vars

\* C19: CircuitManager::encrypt_request returns a cell only for a circuit that
\* is Ready and not older than the timeout; for a Building, Failed, Closing,
\* expired or unknown circuit it returns an error, and the circuit's
\* request_count and last_used are what they were.
Accepts(tbl, id, t) ==
    /\ id \in DOMAIN tbl
    /\ tbl[id].status = "Ready"
    /\ t - tbl[id].created_at <= TIMEOUT_SECS

C19_OnlyReadyCircuitsAccept ==
    /\ tableCall.op = "encrypt_request" =>
          LET id == tableCall.id
              b == tableCall.before
          IN  /\ tableCall.res = "Ok" => (Accepts(b, id, tableCall.at) /\ tableCall.cell # NoTableCell)
              /\ ~Accepts(b, id, tableCall.at) =>
                    /\ tableCall.res \in {"NotFound", "Expired", "BuildFailed"}
                    /\ tableCall.cell = NoTableCell
                    /\ id \in DOMAIN b =>
                          /\ id \in DOMAIN circuits
                          /\ circuits[id].request_count = b[id].request_count
                          /\ circuits[id].last_used = b[id].last_used
    /\ \A id \in DOMAIN circuits, st \in CircuitStatuses \ {"Ready"}, payload \in TablePayloads :
          LET c == [circuits[id] EXCEPT !.status = st]
              out == ManagerEncryptOut(MapPut(circuits, id, c), id, payload, now)
          IN  /\ out.res \in {"Expired", "BuildFailed"}
              /\ out.cell = NoTableCell
              /\ out.circuits[id].request_count = c.request_count
              /\ out.circuits[id].last_used = c.last_used

\* A circuit that served a request, grew older than the timeout and is refused.
C19_Witness ==
    /\ tableCall.op = "encrypt_request"
    /\ tableCall.res = "Expired"
    /\ tableCall.id \in DOMAIN tableCall.before
    /\ tableCall.before[tableCall.id].status = "Ready"
    /\ tableCall.before[tableCall.id].request_count > 0

\* C20: the table never holds more than max_circuits circuits; create_circuit
\* on a full table evicts exactly one circuit, one with the least recent
\* last_used among those idle for more than 60 seconds, and when there is none
\* it returns NoPath and the table is what it was.
EligibleForEviction(tbl, t) == {id \in DOMAIN tbl : t - tbl[id].last_used > EVICT_IDLE_SECS}

C20_TableBounded ==
    /\ Cardinality(DOMAIN circuits) <= MaxCircuits
    /\ (tableCall.op = "create_circuit" /\ Cardinality(DOMAIN tableCall.before) >= MaxCircuits) =>
          LET b == tableCall.before
              eligible == EligibleForEviction(b, tableCall.at)
          IN  IF eligible = {}
              THEN tableCall.res = "NoPath" /\ circuits = b
              ELSE /\ tableCall.res = "Ok"
                   /\ \E e \in eligible :
                         /\ \A o \in eligible : b[e].last_used <= b[o].last_used
                         /\ DOMAIN circuits = (DOMAIN b \ {e}) \cup {tableCall.id}
                         /\ \A k \in DOMAIN b \ {e} : circuits[k] = b[k]

\* A full table with two circuits open to eviction, last used at different
\* times, from which create_circuit evicted one.
C20_Witness ==
    /\ tableCall.op = "create_circuit"
    /\ tableCall.res = "Ok"
    /\ Cardinality(DOMAIN tableCall.before) >= MaxCircuits
    /\ \E x, y \in EligibleForEviction(tableCall.before, tableCall.at) :
           tableCall.before[x].last_used < tableCall.before[y].last_used

\* ------------------------------------------------- relay: circuit table
\* Relay (infernode) keeps one CircuitTable: circuit id -> CircuitState.  Of a
\* CircuitState the model keeps created_at and prev_hop; hop_key and next_hop
\* are stored and returned but never read by the table.
RelayCircuitIds == 1..(MaxRelayCircuits + 1)
RelayPeers == {1, 2}
RelayTimes == {0, 1, 2}
RelayMaxAges == {1, 2}

NewCircuitState(prev_hop, t) == [created_at |-> t, prev_hop |-> prev_hop]

\* The entries min_by_key(created_at) can return: among equal created_at the
\* iteration order of the HashMap decides.
OldestIds(tbl) ==
    {id \in DOMAIN tbl : \A other \in DOMAIN tbl : tbl[id].created_at <= tbl[other].created_at}

\* CircuitTable::register: the tables it can leave behind.
TableRegisterOut(tbl, max_circuits, id, state) ==
    IF Cardinality(DOMAIN tbl) >= max_circuits /\ DOMAIN tbl # {}
    THEN {MapPut(MapWithout(tbl, {oldest_id}), id, state) : oldest_id \in OldestIds(tbl)}
    ELSE {MapPut(tbl, id, state)}

\* CircuitTable::prune_expired: retain the entries younger than max_age.
TablePruneOut(tbl, max_age, t) ==
    MapWithout(tbl, {id \in DOMAIN tbl : ~(t - tbl[id].created_at < max_age)})

RelayCallOf(op, id) == [op |-> op, id |-> id, at |-> now, before |-> relay_circuits]

\* Everything but the clock, the relay, the scheduler and the daemon's tasks.
outsideService == <<logVars, callVars, syncVars, memberVars, onionVars, netVars, frameVars,
                    routerVars, routerThreadVars, tableVars>>
outsideRelay == <<outsideService, relayCellVars, schedVars, codecVars, serverVars, descVars>>

\* Relay::register_circuit: a CircuitState created now, then CircuitTable::register.
RegisterCircuit(id, prev_hop) ==
    /\ relay_circuits' \in TableRegisterOut(relay_circuits, MaxRelayCircuits, id,
                                            NewCircuitState(prev_hop, now))
    /\ relayCall' = RelayCallOf("register", id)
    /\ UNCHANGED <<now, outsideRelay>>

\* CircuitTable::remove.
RemoveCircuit(id) ==
    /\ relay_circuits' = MapWithout(relay_circuits, {id})
    /\ relayCall' = RelayCallOf("remove", id)
    /\ UNCHANGED <<now, outsideRelay>>

\* Relay::prune_circuits = CircuitTable::prune_expired.
PruneCircuits(max_age) ==
    /\ relay_circuits' = TablePruneOut(relay_circuits, max_age, now)
    /\ relayCall' = RelayCallOf("prune_expired", 0)
    /\ UNCHANGED <<now, outsideRelay>>

RelayTick(t) ==
    /\ t > now
    /\ now' = t
    /\ UNCHANGED <<relayVars, outsideRelay>>

NextRelayTable ==
    \/ \E id \in RelayCircuitIds, prev_hop \in RelayPeers : RegisterCircuit(id, prev_hop)
    \/ \E id \in RelayCircuitIds : RemoveCircuit(id)
    \/ \E max_age \in RelayMaxAges : PruneCircuits(max_age)
    \/ \E t \in RelayTimes : RelayTick(t)

SpecRelayTable == Init /\ [][NextRelayTable]_vars

\* C21: the relay's circuit table never holds more than max_circuits entries;
\* register of a new id on a full table removes exactly one entry, one with
\* the oldest created_at, and no other; register of an id that is already in
\* the table replaces that entry and evicts no other circuit.
C21_RelayTableBounded ==
    /\ Cardinality(DOMAIN relay_circuits) <= MaxRelayCircuits
    /\ relayCall.op = "register" =>
          LET b == relayCall.before
              id == relayCall.id
          IN  IF id \in DOMAIN b
              THEN /\ DOMAIN relay_circuits = DOMAIN b
                   /\ \A k \in DOMAIN b \ {id} : relay_circuits[k] = b[k]
              ELSE IF Cardinality(DOMAIN b) >= MaxRelayCircuits
              THEN \E e \in DOMAIN b :
                     /\ \A o \in DOMAIN b : b[e].created_at <= b[o].created_at
                     /\ DOMAIN relay_circuits = (DOMAIN b \ {e}) \cup {id}
                     /\ \A k \in DOMAIN b \ {e} : relay_circuits[k] = b[k]
              ELSE /\ DOMAIN relay_circuits = DOMAIN b \cup {id}
                   /\ \A k \in DOMAIN b : relay_circuits[k] = b[k]

\* ------------------------------------------------- sync: which peers are due
\* Config.sync_interval_secs (default), handed to SyncManager::new as interval.
SYNC_INTERVAL == 30
SyncTimes == {0, 29, 30}

\* SyncManager::peers_needing_sync on node n at instant t.
PeersNeedingSync(n, t) ==
    {p \in DOMAIN peers[n] : t - peers[n][p].last_sync >= SYNC_INTERVAL}

\* SyncManager::mark_failure on the node whose round with peer m.to (a request
\* that got lost) or m.from (a response that got lost) failed.
MarkFailure(m) ==
    /\ m \in net
    /\ LET a == IF m.type = "request" THEN m.from ELSE m.to
           b == IF m.type = "request" THEN m.to ELSE m.from
       IN  peers' = IF b \in DOMAIN peers[a]
                    THEN [peers EXCEPT ![a][b].failures = @ + 1]
                    ELSE peers
    /\ net' = net \ {m}
    /\ UNCHANGED <<logVars, callVars, now, rounds, origin, idx, outsideGossip>>

SyncTick(t) ==
    /\ t > now
    /\ now' = t
    /\ UNCHANGED <<logVars, callVars, syncVars, outsideGossip>>

NextSyncDue ==
    \/ \E n \in Nodes, e \in SyncEvents : SyncAppend(n, e)
    \/ \E n \in Nodes, p \in Nodes : RegisterPeer(n, p)
    \/ \E a \in Nodes, b \in Nodes : CreateRequest(a, b)
    \/ \E m \in net : HandleRequest(m)
    \/ \E m \in net : HandleResponse(m)
    \/ \E m \in net : MarkFailure(m)
    \/ \E t \in SyncTimes : SyncTick(t)

SpecSyncDue == Init /\ [][NextSyncDue]_vars

\* A round that node a started with peer p and that neither handle_response
\* nor mark_failure has ended.
RoundInFlight(a, p) ==
    \E m \in net : \/ m.type = "request" /\ m.from = a /\ m.to = p
                   \/ m.type = "response" /\ m.from = p /\ m.to = a

\* C23: peers_needing_sync returns a registered peer only if at least the
\* interval has passed since its last_sync and no round started with it
\* (create_request) still awaits handle_response or mark_failure.
C23_NoOfferWhileInFlight ==
    \A a \in Nodes : \A p \in PeersNeedingSync(a, now) :
        /\ p \in DOMAIN peers[a]
        /\ now - peers[a][p].last_sync >= SYNC_INTERVAL
        /\ ~RoundInFlight(a, p)

\* ------------------------------------------------------ prober: scheduler
\* Scheduler (prober): three FIFO queues of ScheduledProbe, the set of
\* providers whose probe is being executed, and a ProbeHistory per provider.
\* Of a ScheduledProbe the model keeps provider_id and priority; challenge,
\* scheduled_at and attempts are never read by the scheduler.  Of a
\* ProbeHistory it keeps what is read: failed is total_probes - successful.
ProberIds == {1, 2}
SchedTimes == {0, 300}
MaxCounts == {1, 2}
NEW_PROVIDER_PROBES == 5          \* total_probes < 5: a new provider
UNRELIABLE_FAILURES == 2          \* consecutive_failures > 2: unreliable
NEVER_PROBED_AGE == 3600          \* unwrap_or(Duration::from_secs(3600))
\* Results reported to one Scheduler: as many as take a provider out of the
\* new ones.
MaxProbeResults == NEW_PROVIDER_PROBES

DefaultHistory ==
    [last_probe |-> -1, total_probes |-> 0, successful |-> 0, consecutive_failures |-> 0]

\* ProbeHistory::suggested_interval
SuggestedInterval(h) ==
    IF h.consecutive_failures = 0 THEN 300
    ELSE IF h.consecutive_failures <= 2 THEN 120
    ELSE IF h.consecutive_failures <= 5 THEN 60
    ELSE 30

\* ProbeHistory::priority; success_rate() > 0.95 is successful * 100 > 95 * total.
HistoryPriority(h) ==
    IF h.total_probes < NEW_PROVIDER_PROBES THEN "High"
    ELSE IF h.consecutive_failures > UNRELIABLE_FAILURES THEN "High"
    ELSE IF h.successful * 100 > 95 * h.total_probes THEN "Low"
    ELSE "Normal"

\* ProbeHistory::record at instant t
HistoryRecord(h, passed, t) ==
    [last_probe |-> t,
     total_probes |-> h.total_probes + 1,
     successful |-> IF passed THEN h.successful + 1 ELSE h.successful,
     consecutive_failures |-> IF passed THEN 0 ELSE h.consecutive_failures + 1]

\* The scheduler's queues, in-flight set and history as one value.
SchedState ==
    [history |-> history, high |-> high_priority, normal |-> normal_priority,
     low |-> low_priority, in_flight |-> in_flight]

PriorityOf(st, id) ==
    IF id \in DOMAIN st.history THEN HistoryPriority(st.history[id]) ELSE "High"

QueueOf(st, priority) ==
    IF priority = "High" THEN st.high
    ELSE IF priority = "Normal" THEN st.normal
    ELSE st.low

PushBack(st, priority, probe) ==
    IF priority = "High" THEN [st EXCEPT !.high = Append(@, probe)]
    ELSE IF priority = "Normal" THEN [st EXCEPT !.normal = Append(@, probe)]
    ELSE [st EXCEPT !.low = Append(@, probe)]

\* A schedule_probe that pushes without looking at the queue's length.
ScheduleProbeNoLimit(st, id, max_queue_size) ==
    IF id \in st.in_flight THEN [st |-> st, res |-> "AlreadyScheduled"]
    ELSE LET priority == PriorityOf(st, id)
         IN  [st |-> PushBack(st, priority, [provider_id |-> id, priority |-> priority]),
              res |-> "Ok"]

\* Scheduler::schedule_probe
ScheduleProbeOut(st, id, max_queue_size) ==
    IF id \in st.in_flight THEN [st |-> st, res |-> "AlreadyScheduled"]
    ELSE LET priority == PriorityOf(st, id)
         IN  IF Len(QueueOf(st, priority)) >= max_queue_size
             THEN [st |-> st, res |-> "QueueFull"]
             ELSE [st |-> PushBack(st, priority, [provider_id |-> id, priority |-> priority]),
                   res |-> "Ok"]

\* A next_probe that serves the Normal queue before the High queue.
NextProbeNormalFirst(st) ==
    IF st.normal # <<>>
    THEN [st EXCEPT !.normal = Tail(@), !.in_flight = @ \cup {Head(st.normal).provider_id}]
    ELSE IF st.high # <<>>
    THEN [st EXCEPT !.high = Tail(@), !.in_flight = @ \cup {Head(st.high).provider_id}]
    ELSE IF st.low # <<>>
    THEN [st EXCEPT !.low = Tail(@), !.in_flight = @ \cup {Head(st.low).provider_id}]
    ELSE st

\* Scheduler::next_probe: the head of the first queue that is not empty goes
\* in flight.
NextProbeOut(st) ==
    IF st.high # <<>>
    THEN [st EXCEPT !.high = Tail(@), !.in_flight = @ \cup {Head(st.high).provider_id}]
    ELSE IF st.normal # <<>>
    THEN [st EXCEPT !.normal = Tail(@), !.in_flight = @ \cup {Head(st.normal).provider_id}]
    ELSE IF st.low # <<>>
    THEN [st EXCEPT !.low = Tail(@), !.in_flight = @ \cup {Head(st.low).provider_id}]
    ELSE st

\* schedule_due_probes: the providers it considers, with priority and age.
PriorityRank(priority) == IF priority = "High" THEN 0 ELSE IF priority = "Normal" THEN 1 ELSE 2

ShouldProbe(st, id, t) ==
    \/ id \notin DOMAIN st.history
    \/ st.history[id].last_probe < 0
    \/ t - st.history[id].last_probe >= SuggestedInterval(st.history[id])

ProbeAge(st, id, t) ==
    IF id \in DOMAIN st.history /\ st.history[id].last_probe >= 0
    THEN t - st.history[id].last_probe
    ELSE NEVER_PROBED_AGE

DueCandidates(st, ids, t) == {id \in ids \ st.in_flight : ShouldProbe(st, id, t)}

\* The orders candidates.sort_by can leave: by priority, then oldest first;
\* equal candidates keep the iteration order of the HashSet, which is any.
SortedCandidates(st, cands, t) ==
    {sq \in [1..Cardinality(cands) -> cands] :
        /\ \A i, j \in DOMAIN sq : i # j => sq[i] # sq[j]
        /\ \A i, j \in DOMAIN sq : i < j =>
              \/ PriorityRank(PriorityOf(st, sq[i])) < PriorityRank(PriorityOf(st, sq[j]))
              \/ /\ PriorityOf(st, sq[i]) = PriorityOf(st, sq[j])
                 /\ ProbeAge(st, sq[i], t) >= ProbeAge(st, sq[j], t)}

\* The loop of schedule_due_probes over the candidates taken.
RECURSIVE ScheduleEach(_, _, _)
ScheduleEach(st, ids, max_queue_size) ==
    IF ids = <<>> THEN st
    ELSE ScheduleEach(ScheduleProbeOut(st, Head(ids), max_queue_size).st, Tail(ids),
                      max_queue_size)

SetSched(st) ==
    /\ history' = st.history
    /\ high_priority' = st.high
    /\ normal_priority' = st.normal
    /\ low_priority' = st.low
    /\ in_flight' = st.in_flight

OtherSchedCall == [NoSchedCall EXCEPT !.op = "other"]

outsideSched == <<outsideService, relayVars, relayCellVars, codecVars, serverVars, descVars>>

\* Scheduler::register_provider
SchedRegisterProvider(id) ==
    /\ sched_providers' = sched_providers \cup {id}
    /\ history' = IF id \in DOMAIN history THEN history ELSE MapPut(history, id, DefaultHistory)
    /\ schedCall' = OtherSchedCall
    /\ UNCHANGED <<high_priority, normal_priority, low_priority, in_flight, probe_results,
                   now, outsideSched>>

\* Scheduler::remove_provider
SchedRemoveProvider(id) ==
    /\ sched_providers' = sched_providers \ {id}
    /\ schedCall' = OtherSchedCall
    /\ UNCHANGED <<history, high_priority, normal_priority, low_priority, in_flight,
                   probe_results, now, outsideSched>>

\* Scheduler::schedule_probe
ScheduleProbe(id) ==
    LET out == ScheduleProbeOut(SchedState, id, MaxQueueSize) IN
    /\ SetSched(out.st)
    /\ schedCall' = [op |-> "schedule_probe", id |-> id, res |-> out.res,
                     full |-> Len(QueueOf(SchedState, PriorityOf(SchedState, id))) >= MaxQueueSize,
                     changed |-> out.st # SchedState]
    /\ UNCHANGED <<sched_providers, probe_results, now, outsideSched>>

\* Scheduler::next_probe
NextProbe ==
    /\ SetSched(NextProbeOut(SchedState))
    /\ schedCall' = OtherSchedCall
    /\ UNCHANGED <<sched_providers, probe_results, now, outsideSched>>

\* Scheduler::report_result, called by the task that took the probe with
\* next_probe.
ReportResult(id, passed) ==
    /\ id \in in_flight
    /\ probe_results < MaxProbeResults
    /\ probe_results' = probe_results + 1
    /\ in_flight' = in_flight \ {id}
    /\ history' = IF id \in DOMAIN history
                  THEN [history EXCEPT ![id] = HistoryRecord(@, passed, now)]
                  ELSE history
    /\ schedCall' = OtherSchedCall
    /\ UNCHANGED <<sched_providers, high_priority, normal_priority, low_priority, now,
                   outsideSched>>

\* Scheduler::schedule_due_probes
ScheduleDueProbes(max_count) ==
    /\ \E sq \in SortedCandidates(SchedState, DueCandidates(SchedState, sched_providers, now), now) :
          SetSched(ScheduleEach(SchedState, Take(sq, max_count), MaxQueueSize))
    /\ schedCall' = OtherSchedCall
    /\ UNCHANGED <<sched_providers, probe_results, now, outsideSched>>

SchedTick(t) ==
    /\ t > now
    /\ now' = t
    /\ UNCHANGED <<schedVars, outsideSched>>

NextSched ==
    \/ \E id \in ProberIds : SchedRegisterProvider(id)
    \/ \E id \in ProberIds : SchedRemoveProvider(id)
    \/ \E id \in ProberIds : ScheduleProbe(id)
    \/ NextProbe
    \/ \E id \in ProberIds, passed \in BOOLEAN : ReportResult(id, passed)
    \/ \E max_count \in MaxCounts : ScheduleDueProbes(max_count)
    \/ \E t \in SchedTimes : SchedTick(t)

SpecSched == Init /\ [][NextSched]_vars

\* C27: no priority queue ever holds more than max_queue_size probes, and
\* schedule_probe for a provider that is not in flight and whose queue already
\* holds max_queue_size probes returns QueueFull and leaves the three queues,
\* the in-flight set and the history as they were.
C27_QueuesBounded ==
    /\ Len(high_priority) <= MaxQueueSize
    /\ Len(normal_priority) <= MaxQueueSize
    /\ Len(low_priority) <= MaxQueueSize
    /\ (schedCall.op = "schedule_probe" /\ schedCall.full /\ schedCall.res # "AlreadyScheduled") =>
          (schedCall.res = "QueueFull" /\ ~schedCall.changed)
    /\ \A id \in ProberIds \ in_flight :
          Len(QueueOf(SchedState, PriorityOf(SchedState, id))) >= MaxQueueSize =>
              /\ ScheduleProbeOut(SchedState, id, MaxQueueSize).res = "QueueFull"
              /\ ScheduleProbeOut(SchedState, id, MaxQueueSize).st = SchedState

\* schedule_probe was refused for a well-established provider: the low
\* priority queue is full.
C27_Witness ==
    /\ schedCall.op = "schedule_probe"
    /\ schedCall.res = "QueueFull"
    /\ Len(low_priority) = MaxQueueSize
    /\ Len(high_priority) < MaxQueueSize

\* C37: at most one probe is pending per provider: no provider is queued
\* twice, and none is queued while one of its probes is in flight.
QueuedCount(id) ==
    Cardinality({i \in DOMAIN high_priority : high_priority[i].provider_id = id})
    + Cardinality({i \in DOMAIN normal_priority : normal_priority[i].provider_id = id})
    + Cardinality({i \in DOMAIN low_priority : low_priority[i].provider_id = id})

C37_OnePendingProbePerProvider ==
    \A id \in ProberIds :
        /\ QueuedCount(id) <= 1
        /\ id \in in_flight => QueuedCount(id) = 0

\* C38: next_probe serves in strict priority order.  In every state, the call
\* takes the head of the High queue if there is one, else the head of the
\* Normal queue, else the head of the Low queue, and leaves the other queues
\* alone; the provider of the probe taken is in flight afterwards; nothing
\* changes (None) only when all three queues are empty.  Probes enter a queue
\* at its back and sit in the queue of their priority, so probes of one
\* priority leave in the order they were scheduled.
Priorities == <<"High", "Normal", "Low">>
ServedFrom(st, out, k) ==
    /\ QueueOf(st, Priorities[k]) # <<>>
    /\ \A j \in 1..(k - 1) : QueueOf(st, Priorities[j]) = <<>>
    /\ QueueOf(out, Priorities[k]) = Tail(QueueOf(st, Priorities[k]))
    /\ \A j \in 1..3 : j # k => QueueOf(out, Priorities[j]) = QueueOf(st, Priorities[j])
    /\ Head(QueueOf(st, Priorities[k])).priority = Priorities[k]
    /\ out.in_flight = st.in_flight \cup {Head(QueueOf(st, Priorities[k])).provider_id}
    /\ out.history = st.history

RelayKey == Derive(PeerIdBytes(1), CircuitSecret, 0)
OtherHopKey == Derive(PeerIdBytes(2), CircuitSecret, 1)
RelayCells ==
    [final   |-> OnionCellEncrypt(1, <<>>, <<RelayKey>>),
     forward |-> OnionCellEncrypt(1, <<>>, <<RelayKey, OtherHopKey>>),
     foreign |-> OnionCellEncrypt(1, <<>>, <<OtherHopKey>>)]
RelayCellKinds == {"final", "forward", "foreign"}

\* No cell handed on by the relay.
NoRelayAction == [to_peer |-> <<>>, circuit_id |-> 0, payload |-> <<>>]

\* A process_cell that opens the cell before it looks at the sender's limit.
ProcessCellDecryptFirst(enabled, limits, stats, from_peer, c, hop_key, t, limit) ==
    IF ~enabled
    THEN [limits |-> limits, stats |-> stats, res |-> "Drop", action |-> NoRelayAction]
    ELSE LET dec == DecryptLayer(c, hop_key)
             rl == CheckRateLimit(limits, from_peer, t, limit)
         IN  IF dec.res # "Ok"
             THEN [limits |-> limits, stats |-> stats, res |-> dec.res,
                   action |-> NoRelayAction]
             ELSE IF rl.res # "Ok"
             THEN [limits |-> rl.limits, stats |-> stats, res |-> "RateLimited",
                   action |-> NoRelayAction]
             ELSE [limits |-> rl.limits,
                   stats |-> [stats EXCEPT !.cells_processed = @ + 1,
                                           !.cells_delivered = @ + 1],
                   res |-> "Deliver",
                   action |-> [to_peer |-> <<>>, circuit_id |-> dec.cell.circuit_id,
                               payload |-> dec.cell.payload]]

\* Relay::process_cell on a relay with the given rate limits and stats.
ProcessCellOut(enabled, limits, stats, from_peer, c, hop_key, t, limit) ==
    IF ~enabled
    THEN [limits |-> limits, stats |-> stats, res |-> "Drop", action |-> NoRelayAction]
    ELSE LET rl == CheckRateLimit(limits, from_peer, t, limit) IN
         IF rl.res # "Ok"
         THEN [limits |-> rl.limits, stats |-> stats, res |-> "RateLimited",
               action |-> NoRelayAction]
         ELSE LET dec == DecryptLayer(c, hop_key) IN
              IF dec.res # "Ok"
              THEN [limits |-> rl.limits, stats |-> stats, res |-> dec.res,
                    action |-> NoRelayAction]
              ELSE IF dec.header.is_final
              THEN [limits |-> rl.limits,
                    stats |-> [stats EXCEPT !.cells_processed = @ + 1,
                                            !.cells_delivered = @ + 1],
                    res |-> "Deliver",
                    action |-> [to_peer |-> <<>>, circuit_id |-> dec.cell.circuit_id,
                                payload |-> dec.cell.payload]]
              ELSE [limits |-> rl.limits,
                    stats |-> [stats EXCEPT !.cells_processed = @ + 1,
                                            !.cells_forwarded = @ + 1],
                    res |-> "Forward",
                    action |-> [to_peer |-> dec.header.next_hop,
                                circuit_id |-> dec.cell.circuit_id,
                                payload |-> dec.cell.payload]]

outsideRelayCell == <<outsideService, relayVars, schedVars, codecVars, serverVars, descVars>>

\* One process_cell call of an enabled relay.
ProcessCell(from_peer, kind) ==
    LET out == ProcessCellOut(TRUE, relay_limits, relay_stats, from_peer, RelayCells[kind],
                              RelayKey, now, RateLimitCpm)
    IN  /\ out.res \in {"Deliver", "Forward"} => relay_stats.cells_processed < MaxRelayCells
        /\ relay_limits' = out.limits
        /\ relay_stats' = out.stats
        /\ cellCall' = [from_peer |-> from_peer, res |-> out.res,
                        counted |-> out.stats # relay_stats]
        /\ UNCHANGED <<now, outsideRelayCell>>

RelayCellTick(t) ==
    /\ t > now
    /\ now' = t
    /\ UNCHANGED <<relayCellVars, outsideRelayCell>>

NextRelay ==
    \/ \E from_peer \in RelayPeers, kind \in RelayCellKinds : ProcessCell(from_peer, kind)
    \/ \E t \in ClockTimes : RelayCellTick(t)

SpecRelay == Init /\ [][NextRelay]_vars

\* C29: a cell that fails AEAD decryption at the relay is counted: the
\* process_cell call that returns the decryption error has incremented a
\* counter of the relay's stats.
C29_DecryptFailureCounted == cellCall.res = "DecryptionFailed" => cellCall.counted

\* Cells that carry a request: one whose only layer is the relay's, one with a
\* further layer for the next hop inside, and that inner cell by itself.
RelayRequest == << <<7>>, <<0>> >>
DeliverCell == OnionCellEncrypt(1, RelayRequest, <<RelayKey>>)
ForwardCell == OnionCellEncrypt(1, RelayRequest, <<RelayKey, OtherHopKey>>)
InnerCell == OnionCellEncrypt(1, RelayRequest, <<OtherHopKey>>)
WithinLimit(from_peer) ==
    CheckRateLimit(relay_limits, from_peer, now, RateLimitCpm).res = "Ok"
ProcessNow(enabled, from_peer, c) ==
    ProcessCellOut(enabled, relay_limits, relay_stats, from_peer, c, RelayKey, now,
                   RateLimitCpm)

\* C33: process_cell on an enabled relay looks at the sender's rate limit
\* before it decrypts (a sender over its limit gets RateLimited whatever the
\* cell); a cell that passes and decrypts is delivered with its circuit id and
\* the remaining bytes when its header is final, and otherwise forwarded to
\* header.next_hop with the remaining bytes; cells_processed goes up together
\* with exactly one of cells_delivered and cells_forwarded, so that
\* cells_processed = cells_forwarded + cells_delivered between calls; a
\* disabled relay answers Drop and changes neither counters nor limits.
C33_ProcessCellContract ==
    /\ relay_stats.cells_processed = relay_stats.cells_forwarded + relay_stats.cells_delivered
    /\ \A from_peer \in RelayPeers :
          /\ \A c \in {DeliverCell, ForwardCell, InnerCell} :
                /\ ProcessNow(FALSE, from_peer, c) =
                      [limits |-> relay_limits, stats |-> relay_stats, res |-> "Drop",
                       action |-> NoRelayAction]
                /\ ~WithinLimit(from_peer) =>
                      /\ ProcessNow(TRUE, from_peer, c).res = "RateLimited"
                      /\ ProcessNow(TRUE, from_peer, c).stats = relay_stats
          /\ WithinLimit(from_peer) =>
                /\ LET out == ProcessNow(TRUE, from_peer, DeliverCell) IN
                      /\ out.res = "Deliver"
                      /\ out.action.circuit_id = DeliverCell.circuit_id
                      /\ out.action.payload = RelayRequest
                      /\ out.stats = [relay_stats EXCEPT !.cells_processed = @ + 1,
                                                         !.cells_delivered = @ + 1]
                /\ LET out == ProcessNow(TRUE, from_peer, ForwardCell) IN
                      /\ out.res = "Forward"
                      /\ out.action.to_peer
                            = DecryptLayer(ForwardCell, RelayKey).header.next_hop
                      /\ out.action.circuit_id = ForwardCell.circuit_id
                      /\ out.action.payload = InnerCell.payload
                      /\ out.stats = [relay_stats EXCEPT !.cells_processed = @ + 1,
                                                         !.cells_forwarded = @ + 1]

\* A cell has been forwarded, and one sender is over its limit while the other
\* is not.
C33_Witness ==
    /\ cellCall.res = "Forward"
    /\ relay_stats.cells_forwarded = 1
    /\ \E p, q \in RelayPeers : ~WithinLimit(p) /\ WithinLimit(q)

\* ------------------------------------------- the two per-peer rate limits
\* The membership manager's request limit and the relay's cell limit, driven
\* side by side under one clock.  process_cell checks the limit before it
\* looks at the cell; the cells sent here are the ones not sealed for the relay.
RateCellKinds == {"foreign"}

NextRate ==
    \/ \E p \in MemberPeers, phrase \in Phrases : AdmitPeer(p, phrase)
    \/ \E p \in MemberPeers : CheckAuthorized(p)
    \/ \E from_peer \in RelayPeers, kind \in RateCellKinds : ProcessCell(from_peer, kind)
    \/ \E t \in ClockTimes : Tick(t)

SpecRate == Init /\ [][NextRate]_vars

\* What the claim says of one call made at instant t by peer p on the limits
\* `before`, which left the limits `after` and was refused or not: in a fresh
\* window (no entry yet, or the window began RATE_WINDOW or more ago) the call
\* passes and is the first of a window that begins at t; inside a window it
\* passes while fewer than `limit` calls have passed and is counted, and is
\* refused otherwise with the count as it was; no other peer's entry changes.
RateStepAsClaimed(before, after, refused, p, t, limit) ==
    /\ \A q \in DOMAIN before \ {p} : q \in DOMAIN after /\ after[q] = before[q]
    /\ DOMAIN after = DOMAIN before \cup {p}
    /\ after[p].count <= limit
    /\ IF p \notin DOMAIN before \/ t - before[p].window_start >= RATE_WINDOW
       THEN ~refused /\ after[p] = [count |-> 1, window_start |-> t]
       ELSE IF before[p].count < limit
       THEN ~refused /\ after[p] = [before[p] EXCEPT !.count = @ + 1]
       ELSE refused /\ after[p] = before[p]

\* C26: the rate-limit boundary, for check_authorized of an admitted peer and
\* for the relay's cell limit: from a fresh window the first N calls of a peer
\* pass, every further call inside the window is refused with RateLimited and
\* leaves the count alone, the first call made 60 s or more after the window's
\* start passes again, and no call touches another peer's budget.
C26_RateLimitBoundary ==
    /\ \A p \in MemberPeers :
          (IsAdmitted(members, p) /\ p \notin banned) =>
              LET out == CheckAuthorizedOutcome(members, banned, rate_limits, p, now,
                                                RateLimitRpm)
              IN  /\ out.res \in {"Ok", "RateLimited"}
                  /\ RateStepAsClaimed(rate_limits, out.limits, out.res = "RateLimited",
                                       p, now, RateLimitRpm)
    /\ \A from_peer \in RelayPeers, kind \in RelayCellKinds :
          LET out == ProcessCellOut(TRUE, relay_limits, relay_stats, from_peer,
                                    RelayCells[kind], RelayKey, now, RateLimitCpm)
          IN  RateStepAsClaimed(relay_limits, out.limits, out.res = "RateLimited",
                                from_peer, now, RateLimitCpm)
    /\ \A from_peer \in DOMAIN relay_limits : relay_limits[from_peer].count <= RateLimitCpm
    /\ \A p \in DOMAIN rate_limits : rate_limits[p].count <= RateLimitRpm

\* Peer p has used up its requests and the relay has just refused a cell of
\* peer 1, both inside their windows, while the other peers still have budget.
C26_Witness ==
    /\ IsAdmitted(members, "p") /\ "p" \in DOMAIN rate_limits
    /\ rate_limits["p"].count = RateLimitRpm
    /\ now - rate_limits["p"].window_start < RATE_WINDOW
    /\ Len(okTimes["p"]) >= RateLimitRpm
    /\ CheckAuthorizedOutcome(members, banned, rate_limits, "p", now, RateLimitRpm).res
           = "RateLimited"
    /\ cellCall.res = "RateLimited" /\ cellCall.from_peer = 1
    /\ ProcessCellOut(TRUE, relay_limits, relay_stats, 2, RelayCells["final"], RelayKey,
                      now, RateLimitCpm).res = "Deliver"
    /\ now >= RATE_WINDOW

\* ---------------------------------------------------------------------------
\* terrain-gossip-net: one FrameCodec with fixed cells, frame by frame
\* (crates/terrain-gossip-net/src/framing.rs)
\*
\* The codec encodes the frames of its own side; the bytes that reach its
\* decoder are written by the peer, whose codec may pad (the same
\* fixed_cell_bytes) or not (FrameCodec::new, fixed_cell_bytes = 0).
\* ---------------------------------------------------------------------------
EVENT_BROADCAST == 12                \* FrameType::EventBroadcast
CodecFrameTypes == {CIRCUIT_CELL, EVENT_BROADCAST}
CodecBytes == {<<0>>, <<1>>}
CodecPayloads == UNION {[1..n -> CodecBytes] : n \in 0..MaxCodecPayload}
CodecFrames == [frame_type : CodecFrameTypes, payload : CodecPayloads]
PeerCellBytes == {0, CodecCellBytes}

outsideCodec == <<outsideService, now, relayVars, relayCellVars, schedVars, serverVars, descVars>>

\* Encoder::encode of the fixed-cell codec; the frame is written to the stream.
CodecEncode(item) ==
    LET enc == FrameEncode(CodecCellBytes, item) IN
    /\ codecCall' = [op |-> "encode", res |-> enc.res, frame_type |-> item.frame_type,
                     in_len |-> Len(item.payload),
                     len |-> IF enc.res = "Ok" THEN Len(enc.bytes) - FRAME_HEADER_LEN ELSE 0]
    /\ UNCHANGED <<codec_src, codec_in, codec_out, outsideCodec>>

\* Bytes of one frame arrive from the peer, whose codec is configured with
\* fixed_cell_bytes = peer_cell_bytes, and are appended to the read buffer.
CodecReceive(peer_cell_bytes, item) ==
    LET enc == FrameEncode(peer_cell_bytes, item) IN
    /\ enc.res = "Ok"
    /\ Len(codec_src) + Len(enc.bytes) <= MaxCodecBuffer
    /\ codec_src' = codec_src \o enc.bytes
    /\ UNCHANGED <<codecCall, codec_in, codec_out, outsideCodec>>

\* Decoder::decode of the fixed-cell codec on its read buffer.
CodecDecode ==
    LET dec == FrameDecode(codec_src) IN
    /\ codec_src # <<>>
    /\ codec_src' = dec.rest
    /\ codecCall' = [op |-> "decode", res |-> dec.res,
                     frame_type |-> dec.frame.frame_type,
                     in_len |-> LengthPrefix(codec_src) - 1,
                     len |-> Len(dec.frame.payload)]
    /\ UNCHANGED <<codec_in, codec_out, outsideCodec>>

NextCodec ==
    \/ \E item \in CodecFrames : CodecEncode(item)
    \/ \E peer_cell_bytes \in PeerCellBytes, item \in CodecFrames :
           CodecReceive(peer_cell_bytes, item)
    \/ CodecDecode

SpecCodec == Init /\ [][NextCodec]_vars

\* The decoder alone on a stream of bytes that arrive one at a time, so that
\* decode may be called after any prefix; the bytes are whatever the peer
\* sends.  0 and 1 are lengths and known frame types (Ping, Pong), 2 is an
\* unknown frame type and, as the first length byte, a length above
\* MAX_FRAME_SIZE.  A stream ends at the first error.
StreamBytes == {<<0>>, <<1>>, <<2>>}
DecodeFailed == codec_out # <<>> /\ codec_out[Len(codec_out)].res # "Ok"

StreamReceive(byte) ==
    /\ ~DecodeFailed
    /\ Len(codec_in) < MaxStream
    /\ codec_src' = Append(codec_src, byte)
    /\ codec_in' = Append(codec_in, byte)
    /\ UNCHANGED <<codecCall, codec_out, outsideCodec>>

\* Decoder::decode on the read buffer, as the Framed stream calls it.
StreamDecode ==
    LET dec == FrameDecode(codec_src) IN
    /\ ~DecodeFailed
    /\ codec_src' = dec.rest
    /\ codecCall' = [op |-> "decode", res |-> dec.res,
                     frame_type |-> dec.frame.frame_type,
                     in_len |-> IF Len(codec_src) < LENGTH_PREFIX_LEN THEN 0
                                ELSE LengthPrefix(codec_src) - 1,
                     len |-> Len(codec_src) - Len(dec.rest)]
    /\ codec_out' = IF dec.res = "None" THEN codec_out
                    ELSE Append(codec_out, [res |-> dec.res, frame |-> dec.frame])
    /\ UNCHANGED <<codec_in, outsideCodec>>

NextStream ==
    \/ \E byte \in StreamBytes : StreamReceive(byte)
    \/ StreamDecode

SpecStream == Init /\ [][NextStream]_vars

\* What decode returns when it is called again and again on src until it
\* returns None or an error.
RECURSIVE DecodeAll(_)
DecodeAll(src) ==
    LET dec == FrameDecode(src) IN
    IF dec.res = "None" THEN <<>>
    ELSE IF dec.res = "Ok" THEN <<[res |-> "Ok", frame |-> dec.frame]>> \o DecodeAll(dec.rest)
    ELSE <<[res |-> dec.res, frame |-> dec.frame]>>

\* The frames do not depend on how the stream was split into chunks: what has
\* been returned so far, followed by what the buffered bytes still yield, is
\* what the whole stream yields when it is decoded in one piece.
ChunkIndependent ==
    (IF DecodeFailed THEN codec_out ELSE codec_out \o DecodeAll(codec_src))
        = DecodeAll(codec_in)

\* decode takes nothing from the buffer before a whole frame is in it, and
\* with a frame it takes the four length bytes and the declared length.
ConsumesWholeFrames ==
    codecCall.op = "decode" =>
        /\ codecCall.res \in {"None", "TooLarge"} => codecCall.len = 0
        /\ codecCall.res = "Ok" => codecCall.len = LENGTH_PREFIX_LEN + codecCall.in_len + 1

\* The type byte is read only when it lies within the declared length (in_len
\* is the declared length less the type byte).
ReadsWithinFrame ==
    (codecCall.op = "decode" /\ codecCall.res \in {"Ok", "Serialization", "Panic"}) =>
        codecCall.in_len >= 0

\* C40: decode yields the same frames however the byte stream is split,
\* consumes nothing until a whole frame is buffered, never reads beyond the
\* declared length, and answers a declared length of 0, a length above
\* MAX_FRAME_SIZE or an unknown frame type with an error, never a panic.
C40_DecodeChunkIndependentAndSafe ==
    /\ ChunkIndependent
    /\ ConsumesWholeFrames
    /\ ReadsWithinFrame
    /\ codecCall.res # "Panic"

\* C30: with fixed cells of N > 0 bytes every CircuitCell frame the codec
\* emits or accepts has a payload of exactly N bytes: encode pads a shorter
\* payload to N and answers TooLarge to a longer one, decode does not accept a
\* CircuitCell of another length, and frames of the other types keep the
\* payload length they came with.
C30_FixedCellCodec ==
    /\ (codecCall.op = "encode" /\ codecCall.frame_type = CIRCUIT_CELL) =>
          IF codecCall.in_len > CodecCellBytes THEN codecCall.res = "TooLarge"
          ELSE codecCall.res = "Ok" /\ codecCall.len = CodecCellBytes
    /\ (codecCall.op = "encode" /\ codecCall.frame_type # CIRCUIT_CELL) =>
          codecCall.res = "Ok" /\ codecCall.len = codecCall.in_len
    /\ (codecCall.op = "decode" /\ codecCall.res = "Ok") =>
          IF codecCall.frame_type = CIRCUIT_CELL THEN codecCall.len = CodecCellBytes
          ELSE codecCall.len = codecCall.in_len


\* ---------------------------------------------------------------------------
\* gossipd: the server's tasks and its shutdown channel
\* (crates/gossipd/src/server.rs, crates/gossipd/src/main.rs)
\*
\* Server::new creates the broadcast channel and keeps the sender only.  A
\* broadcast receiver sees the messages sent after it subscribed; with a
\* capacity of one a receiver holds at most one message, and a receiver that
\* lagged completes recv() with an error, which the `_` pattern of the select
\* branch takes as well.
\* ---------------------------------------------------------------------------
BackgroundTasks == {"sync", "prune"}
Receivers == {"run", "sync", "prune"}

outsideServer == <<outsideService, now, relayVars, relayCellVars, schedVars, codecVars, descVars>>

\* Server::run up to the bind: spawn_sync_task and spawn_prune_task subscribe
\* their receivers and start their loops.
SrvSpawnTasks ==
    /\ run_pc = "new"
    /\ run_pc' = "spawned"
    /\ task_pc' = [t \in BackgroundTasks |-> "loop"]
    /\ shutdown_rx' = [shutdown_rx EXCEPT !["sync"] = "empty", !["prune"] = "empty"]
    /\ UNCHANGED <<signal_pc, shutdown_called, flushed, accepted, ticks, outsideServer>>

\* TcpListener::bind(..).await?, then the run loop's own subscribe
SrvBind(ok) ==
    /\ run_pc = "spawned"
    /\ IF ok
       THEN /\ run_pc' = "accept"
            /\ shutdown_rx' = [shutdown_rx EXCEPT !["run"] = "empty"]
       ELSE /\ run_pc' = "failed"
            /\ UNCHANGED shutdown_rx
    /\ UNCHANGED <<task_pc, signal_pc, shutdown_called, flushed, accepted, ticks,
                   outsideServer>>

\* The accept branch of the run loop: the connection gets a task of its own.
SrvAccept ==
    /\ run_pc = "accept"
    /\ accepted < MaxAccepted
    /\ accepted' = accepted + 1
    /\ UNCHANGED <<run_pc, task_pc, shutdown_rx, signal_pc, shutdown_called, flushed,
                   ticks, outsideServer>>

\* The shutdown branch of the run loop, and the rest of run: break, abort both
\* handles, flush the storage, return Ok.
SrvRunRecv ==
    /\ run_pc = "accept"
    /\ shutdown_rx["run"] = "message"
    /\ run_pc' = "returned"
    /\ shutdown_rx' = [shutdown_rx EXCEPT !["run"] = "empty"]
    /\ task_pc' = [t \in BackgroundTasks |->
                      IF task_pc[t] = "loop" THEN "aborted" ELSE task_pc[t]]
    /\ flushed' = TRUE
    /\ UNCHANGED <<signal_pc, shutdown_called, accepted, ticks, outsideServer>>

\* The ticker branch of a background task's loop.  The interval timer never
\* stops; the ticks served are counted modulo MaxTicks + 1.
SrvTick(t) ==
    /\ task_pc[t] = "loop"
    /\ ticks' = [ticks EXCEPT ![t] = (@ + 1) % (MaxTicks + 1)]
    /\ UNCHANGED <<run_pc, task_pc, shutdown_rx, signal_pc, shutdown_called, flushed,
                   accepted, outsideServer>>

\* The shutdown branch of a background task's loop: break, and the task ends.
SrvTaskRecv(t) ==
    /\ task_pc[t] = "loop"
    /\ shutdown_rx[t] = "message"
    /\ task_pc' = [task_pc EXCEPT ![t] = "exited"]
    /\ shutdown_rx' = [shutdown_rx EXCEPT ![t] = "empty"]
    /\ UNCHANGED <<run_pc, signal_pc, shutdown_called, flushed, accepted, ticks,
                   outsideServer>>

\* Server::shutdown: one send on the broadcast channel; the result is dropped.
SrvShutdown ==
    /\ shutdown_called' = TRUE
    /\ shutdown_rx' = [r \in Receivers |->
                          IF shutdown_rx[r] = "none" THEN "none" ELSE "message"]
    /\ UNCHANGED <<run_pc, task_pc, signal_pc, flushed, accepted, ticks, outsideServer>>

\* Ctrl-C arrives: the task main spawned wakes up, logs and ends.
SrvCtrlC ==
    /\ signal_pc = "waiting"
    /\ signal_pc' = "logged"
    /\ UNCHANGED <<run_pc, task_pc, shutdown_rx, shutdown_called, flushed, accepted,
                   ticks, outsideServer>>

NextServer ==
    \/ SrvSpawnTasks
    \/ \E ok \in BOOLEAN : SrvBind(ok)
    \/ SrvAccept
    \/ SrvRunRecv
    \/ \E t \in BackgroundTasks : SrvTick(t)
    \/ \E t \in BackgroundTasks : SrvTaskRecv(t)
    \/ SrvShutdown
    \/ SrvCtrlC

\* The runtime polls every task that is ready: run proceeds to its loop, and a
\* receiver holding a message is served, and the interval timers keep ticking.
\* Connections, Ctrl-C and calls of shutdown come when they come.
SpecServer ==
    /\ Init
    /\ [][NextServer]_vars
    /\ WF_vars(SrvSpawnTasks)
    /\ WF_vars(\E ok \in BOOLEAN : SrvBind(ok))
    /\ WF_vars(SrvRunRecv)
    /\ \A t \in BackgroundTasks : WF_vars(SrvTaskRecv(t))
    /\ \A t \in BackgroundTasks : WF_vars(SrvTick(t))

ShutdownRequested == signal_pc = "logged" \/ shutdown_called
ServerStopped ==
    \/ run_pc = "failed"
    \/ /\ run_pc = "returned"
       /\ flushed
       /\ \A t \in BackgroundTasks : task_pc[t] # "loop"

\* C28: shutdown is honoured.  After Ctrl-C, or after a call of
\* Server::shutdown at any moment once the server exists, the accept loop and
\* the sync and prune tasks eventually leave their loops and run returns with
\* the storage flushed.  (A run that ended with a bind error is not held to it.)
C28_ShutdownHonoured == ShutdownRequested ~> ServerStopped


\* ---------------------------------------------------------------------------
\* The client's circuits again: the path a circuit's status takes
\* ---------------------------------------------------------------------------
\* C34: a circuit's status moves along Building -> Ready -> (Failed | Closing)
\* only: under create_circuit, mark_ready, encrypt_request, prune and
\* close_circuit a circuit that is Failed or Closing does not become Ready
\* again, and a Building circuit becomes Failed or Closing only after it has
\* been Ready.
C34_StatusMovesForward ==
    [][\A id \in DOMAIN circuits \cap DOMAIN circuits' :
          /\ circuits[id].status \in {"Failed", "Closing"} => circuits'[id].status # "Ready"
          /\ circuits[id].status = "Building" =>
                circuits'[id].status \in {"Building", "Ready"}]_vars

\* ---------------------------------------------------------------------------
\* Delta sync again: what has_more tells the requester
\* ---------------------------------------------------------------------------
\* The events of a response, as a set.
EventsOf(events) == {events[i] : i \in 1..Len(events)}

\* C36: has_more is true exactly when the server holds an event the requester
\* is missing that the response does not carry.  Stated of the response that
\* handle_request on node n gives, in the present state, to a request node a
\* makes with its present version vector.
C36_HasMoreExact ==
    \A n \in Nodes : \A a \in Nodes \ {n} :
        LET out == HandleRequestOut(n, GetVersionVector(a), MaxBatch) IN
        out.has_more <=>
            \E e \in store[n] : e \notin store[a] /\ e \notin EventsOf(out.events)

\* ---------------------------------------------------------------------------
\* The event log again: counters against insertions, call by call
\* ---------------------------------------------------------------------------
\* A step that is one whole append or merge call on the log: the steps that
\* leave such a call in lastCall.
LogCallStep == lastCall'.op \in {"append", "merge"}

\* The counter of every source but r is what it was.
OtherCountersKept(r) ==
    \A x \in LogSources \cup DOMAIN vv[LogNode] \cup DOMAIN vv'[LogNode] :
        x # r => VVGet(vv'[LogNode], x) = VVGet(vv[LogNode], x)
CounterRaised(r) ==
    /\ VVGet(vv'[LogNode], r) = VVGet(vv[LogNode], r) + 1
    /\ OtherCountersKept(r)

\* C32: in a history of calls made one after another, every call that reports
\* an insertion (append Ok, merge Ok(true)) raises the counter of its source by
\* exactly 1 and leaves the other counters alone, a rejected call
\* (WorldMismatch, DuplicateEvent, merge Ok(false)) changes no counter, and the
\* sum of the counters moves with event_count(): a call that ends in a storage
\* error has raised a counter exactly when it has stored its event.
C32_CountersMatchInsertions ==
    [][LogCallStep =>
          /\ lastCall'.res \in {"Ok", "Ok(true)"} => CounterRaised(lastCall'.src)
          /\ lastCall'.res \in {"WorldMismatch", "DuplicateEvent", "Ok(false)"} =>
                vv'[LogNode] = vv[LogNode]
          /\ lastCall'.res = "Storage" =>
                \/ vv'[LogNode] = vv[LogNode]
                \/ CounterRaised(lastCall'.src)
          /\ VVTotal(vv'[LogNode]) - VVTotal(vv[LogNode])
                = EventCount(store'[LogNode]) - EventCount(store[LogNode])]_vars

\* An append and two merges from different sources have been counted, and a
\* duplicate has just been turned away.
C32_Witness ==
    /\ lastCall.op = "append" /\ lastCall.res = "DuplicateEvent"
    /\ \E r \in LogSources \ {LogNode} : VVGet(vv[LogNode], r) >= 1
    /\ VVGet(vv[LogNode], LogNode) >= 1
    /\ VVTotal(vv[LogNode]) = EventCount(store[LogNode])
    /\ EventCount(store[LogNode]) >= 2

\* ---------------------------------------------------------------------------
\* terrain-gossip-core: provider descriptors, their canonical form and identity
\* (crates/terrain-gossip-core/src/canonical.rs, crypto.rs, types.rs)
\*
\* Strings and byte arrays are sequences of small numbers, compared
\* lexicographically as String and [u8; 32] are; an Adapter is the triple
\* <<adapter_type, adapter_id, adapter_digest>>, which the derived Ord compares in
\* that order.  postcard writes a struct field by field and a Vec as its length
\* followed by its elements, so canonical_bytes is one-to-one on values of one
\* type: it is the tuple of the fields.  BLAKE3 and Ed25519 are ideal: a hash is
\* the tagged input, a signature is the pair of signing key and message, and
\* the public key of signing key k is k.
\* ---------------------------------------------------------------------------
RECURSIVE LexLess(_, _)
LexLess(a, b) ==
    IF a = <<>> THEN b # <<>>
    ELSE IF b = <<>> THEN FALSE
    ELSE IF a[1] # b[1] THEN a[1] < b[1]
    ELSE LexLess(Tail(a), Tail(b))

\* <[T]>::sort: the elements in ascending order (the order is total, so the
\* result does not depend on the algorithm).
RECURSIVE InsertSorted(_, _)
InsertSorted(sq, x) ==
    IF sq = <<>> THEN <<x>>
    ELSE IF LexLess(x, Head(sq)) THEN <<x>> \o sq
    ELSE <<Head(sq)>> \o InsertSorted(Tail(sq), x)

RECURSIVE VecSort(_)
VecSort(sq) == IF sq = <<>> THEN <<>> ELSE InsertSorted(VecSort(Tail(sq)), Head(sq))

\* Vec::dedup: of each run of equal neighbours the first is kept.
RECURSIVE VecDedup(_)
VecDedup(sq) ==
    IF Len(sq) < 2 THEN sq
    ELSE IF sq[1] = sq[2] THEN VecDedup(Tail(sq))
    ELSE <<Head(sq)>> \o VecDedup(Tail(sq))

\* A normalization that sorts and keeps duplicates.
NormalizeSortOnly(desc) ==
    [desc EXCEPT !.contact_points = VecSort(@),
                 !.capability = IF @.kind = "Manifest"
                                THEN [@ EXCEPT !.adapters = VecSort(@)]
                                ELSE @]

\* normalize_capability_manifest
NormalizeCapabilityManifest(manifest) ==
    [manifest EXCEPT !.adapters = VecDedup(VecSort(@))]

\* normalize_descriptor_unsigned
NormalizeDescriptorUnsigned(desc) ==
    [desc EXCEPT !.contact_points = VecDedup(VecSort(@)),
                 !.capability = IF @.kind = "Manifest"
                                THEN NormalizeCapabilityManifest(@)
                                ELSE @]

\* validate_contact_points_sorted and validate_adapters_sorted: the same loop
StrictlyIncreasing(sq) == \A i \in 2..Len(sq) : ~(sq[i] = sq[i - 1] \/ LexLess(sq[i], sq[i - 1]))
ValidateContactPointsSorted(points) == StrictlyIncreasing(points)
ValidateAdaptersSorted(adapters) == StrictlyIncreasing(adapters)

\* canonical_bytes of a ProviderDescriptorUnsigned
CanonicalBytes(unsigned) ==
    <<unsigned.world, unsigned.descriptor_epoch, unsigned.contact_points,
      unsigned.capability.kind, unsigned.capability.base_model_id,
      unsigned.capability.adapters>>

DeriveDescriptorId(unsigned) == <<"descriptor", CanonicalBytes(unsigned)>>
DescriptorSignBytes(world_id, descriptor_id, unsigned) ==
    <<"desc-sig", world_id, descriptor_id, CanonicalBytes(unsigned)>>
VerifyDescriptorId(descriptor) ==
    DeriveDescriptorId(descriptor.unsigned) = descriptor.descriptor_id

Ed25519Sign(key, msg) == <<key, msg>>
Ed25519Verify(pubkey, msg, sig) == sig = <<pubkey, msg>>
\* The signature of a descriptor verifies over descriptor_sign_bytes.
SignatureVerifies(descriptor) ==
    Ed25519Verify(descriptor.provider_transport_pubkey,
                  DescriptorSignBytes(descriptor.unsigned.world, descriptor.descriptor_id,
                                      descriptor.unsigned),
                  descriptor.signature)

\* create_provider_descriptor, with sign_fn signing under key
CreateProviderDescriptor(unsigned, provider_transport_pubkey, key) ==
    LET normal == NormalizeDescriptorUnsigned(unsigned)
        descriptor_id == DeriveDescriptorId(normal)
    IN  [descriptor_id |-> descriptor_id,
         unsigned |-> normal,
         provider_transport_pubkey |-> provider_transport_pubkey,
         signature |-> Ed25519Sign(key, DescriptorSignBytes(normal.world, descriptor_id,
                                                           normal))]

ContactPoints == {<<1>>, <<1, 2>>}
Adapters == {<<1, 2, 1>>, <<2, 1, 1>>}
SeqsUpTo(S, n) == UNION {[1..k -> S] : k \in 0..n}
FahCapability == [kind |-> "Fah", base_model_id |-> NoFamily, adapters |-> <<>>]
ManifestCapabilities ==
    [kind : {"Manifest"}, base_model_id : {"a"}, adapters : SeqsUpTo(Adapters, MaxAdapters)]
UnsignedInputs ==
    [world : {LocalWorld}, descriptor_epoch : {1},
     contact_points : SeqsUpTo(ContactPoints, MaxContacts),
     capability : {FahCapability} \cup ManifestCapabilities]
\* Signing keys: the provider's own, and one that is not the provider's.
SigningKeys == {1, 2}
ProviderKey == CHOOSE k \in SigningKeys : \A x \in SigningKeys : k <= x

outsideDesc == <<outsideService, now, relayVars, relayCellVars, schedVars, codecVars, serverVars>>

\* One create_provider_descriptor call by a provider.
CreateDescriptor(unsigned) ==
    /\ created' = [input |-> unsigned,
                   out |-> CreateProviderDescriptor(unsigned, ProviderKey, ProviderKey)]
    /\ UNCHANGED <<descriptor_of, outsideDesc>>

\* normalize_descriptor_unsigned applied once more to the descriptor last created
Renormalize ==
    /\ created.out # NoDescriptor
    /\ created' = [created EXCEPT !.out.unsigned = NormalizeDescriptorUnsigned(@)]
    /\ UNCHANGED <<descriptor_of, outsideDesc>>

NextCanon ==
    \/ \E unsigned \in UnsignedInputs : CreateDescriptor(unsigned)
    \/ Renormalize

SpecCanon == Init /\ [][NextCanon]_vars

ElemSet(sq) == {sq[i] : i \in 1..Len(sq)}
\* Two inputs that differ at most in the order and multiplicity of their
\* repeated fields.
SameAsSets(u, v) ==
    /\ u.world = v.world
    /\ u.descriptor_epoch = v.descriptor_epoch
    /\ ElemSet(u.contact_points) = ElemSet(v.contact_points)
    /\ u.capability.kind = v.capability.kind
    /\ u.capability.base_model_id = v.capability.base_model_id
    /\ ElemSet(u.capability.adapters) = ElemSet(v.capability.adapters)

\* C35: the descriptor id does not depend on the order or multiplicity of
\* contact_points and manifest adapters: every input equal to the one given,
\* field by field as sets, yields the same descriptor_id; the descriptor
\* returned has strictly increasing contact_points and adapters, its id is the
\* id derived from its content, and normalizing it again changes nothing.
C35_IdentityOrderIndependent ==
    created.out # NoDescriptor =>
        /\ \A v \in UnsignedInputs :
              SameAsSets(created.input, v) =>
                  CreateProviderDescriptor(v, ProviderKey, ProviderKey).descriptor_id
                      = created.out.descriptor_id
        /\ ValidateContactPointsSorted(created.out.unsigned.contact_points)
        /\ ValidateAdaptersSorted(created.out.unsigned.capability.adapters)
        /\ ElemSet(created.out.unsigned.contact_points) = ElemSet(created.input.contact_points)
        /\ NormalizeDescriptorUnsigned(created.out.unsigned) = created.out.unsigned
        /\ VerifyDescriptorId(created.out)

C35_Witness ==
    /\ created.input # <<>>
    /\ created.input.contact_points = << <<1, 2>>, <<1>>, <<1, 2>> >>
    /\ created.input.capability.adapters = << <<2, 1, 1>>, <<1, 2, 1>> >>
    /\ created.out.unsigned.contact_points = << <<1>>, <<1, 2>> >>
    /\ created.out.unsigned.capability.adapters = << <<1, 2, 1>>, <<2, 1, 1>> >>


\* ---------------------------------------------------------------------------
\* Descriptors on their way into the router's registry and the event log
\* (crates/routerd/src/router.rs, provider.rs; crates/gossipd/src/event_log.rs)
\* ---------------------------------------------------------------------------
\* get_model_family
GetModelFamily(descriptor) ==
    IF descriptor.unsigned.capability.kind = "Manifest"
    THEN descriptor.unsigned.capability.base_model_id
    ELSE NoFamily

\* The contents providers publish, and the descriptors that reach a node: made
\* by create_provider_descriptor, or carrying the id of other content, or
\* signed under a key that is not provider_transport_pubkey.
PublishedUnsigned ==
    {u \in UnsignedInputs : u.contact_points = << <<1>> >> /\ u.capability.adapters = <<>>}
OtherKey == CHOOSE k \in SigningKeys : k # ProviderKey
DescriptorOffers ==
    {[descriptor_id |-> DeriveDescriptorId(w), unsigned |-> u,
      provider_transport_pubkey |-> ProviderKey,
      signature |-> Ed25519Sign(k, DescriptorSignBytes(u.world, DeriveDescriptorId(w), u))] :
         u \in PublishedUnsigned, w \in PublishedUnsigned, k \in {ProviderKey, OtherKey}}

\* Router::register_provider: the registry keeps the descriptor under its
\* descriptor_id, the terrain lists the id at the coordinate of its family.
DescRegisterProvider(descriptor) ==
    /\ router_calls < MaxRouterCalls
    /\ LET id == descriptor.descriptor_id
           model == GetModelFamily(descriptor)
           reg == RegistryRegisterOut(providers, by_model, id, model, now)
           coord == TerrainCoordNew(IF model = NoFamily THEN "unknown" ELSE model, 0)
           ter == TerrainRegisterOut(providers_at, trails, coord, id, now)
       IN  /\ providers' = reg.providers
           /\ by_model' = reg.by_model
           /\ providers_at' = ter.providers_at
           /\ trails' = ter.trails
           /\ descriptor_of' = MapPut(descriptor_of, id, descriptor)
    /\ routerCall' = OtherCall
    /\ router_calls' = router_calls + 1
    /\ UNCHANGED <<last_decay, last_update, now, routerThreadVars, created,
                   logVars, callVars, syncVars, memberVars, onionVars, netVars, frameVars,
                   tableVars, relayVars, relayCellVars, schedVars, codecVars, serverVars>>

\* The DescriptorPublish event that carries a descriptor
DescriptorPublish(event_id, descriptor) ==
    [event_id |-> event_id, world |-> LocalWorld, descriptor |-> descriptor]

\* EventLog::append and EventLog::merge of a DescriptorPublish event
DescAppend(event_id, descriptor) ==
    LET e == DescriptorPublish(event_id, descriptor)
        out == AppendOutcome(store[LogNode], vv[LogNode], diskVV[LogNode], LogNode, e, "none")
    IN  /\ store' = [store EXCEPT ![LogNode] = out.store]
        /\ vv' = [vv EXCEPT ![LogNode] = out.vv]
        /\ diskVV' = [diskVV EXCEPT ![LogNode] = out.disk]
        /\ lastCall' = CallRecord("append", LogNode, e, LogNode, "none", out)
        /\ UNCHANGED <<thr, okCount, outsideLog>>

DescMerge(event_id, descriptor, r) ==
    LET e == DescriptorPublish(event_id, descriptor)
        out == MergeOutcome(store[LogNode], vv[LogNode], diskVV[LogNode], e, r, "none")
    IN  /\ store' = [store EXCEPT ![LogNode] = out.store]
        /\ vv' = [vv EXCEPT ![LogNode] = out.vv]
        /\ diskVV' = [diskVV EXCEPT ![LogNode] = out.disk]
        /\ lastCall' = CallRecord("merge", LogNode, e, r, "none", out)
        /\ UNCHANGED <<thr, okCount, outsideLog>>

\* The event that publishes a descriptor, and the peer it may come from.
DescEventId == CHOOSE e \in EventIds : \A x \in EventIds : e <= x
DescPeer == CHOOSE r \in LogSources \ {LogNode} : TRUE

\* EventLog::get_descriptors
GetDescriptors(S) == {e.descriptor : e \in S}

NextDesc ==
    \/ \E descriptor \in DescriptorOffers : DescRegisterProvider(descriptor)
    \/ \E descriptor \in DescriptorOffers : DescAppend(DescEventId, descriptor)
    \/ \E descriptor \in DescriptorOffers : DescMerge(DescEventId, descriptor, DescPeer)

SpecDesc == Init /\ [][NextDesc]_vars

\* C31: every descriptor the system holds has the id derived from its content
\* and a signature that verifies over descriptor_sign_bytes: those kept by the
\* router's registry after register_provider, and those get_descriptors returns
\* from appended and merged events.
C31_AcceptedDescriptorsValid ==
    /\ \A id \in DOMAIN descriptor_of :
          VerifyDescriptorId(descriptor_of[id]) /\ SignatureVerifies(descriptor_of[id])
    /\ \A descriptor \in GetDescriptors(store[LogNode]) :
          VerifyDescriptorId(descriptor) /\ SignatureVerifies(descriptor)

============================================================================
